---------------------------- MODULE Spec2Model ----------------------------
(***************************************************************************)
(* Smart Irrigation Decision Support System: the decision engine, the      *)
(* hazard resolvers and the regional dataset layer of utils.py, and the    *)
(* farmer-mode pipeline of app.py.                                         *)
(*                                                                         *)
(* Numbers are fixed point integers:                                       *)
(*   temperature, wind        tenths        (301 is 30.1)                   *)
(*   humidity                 percent                                      *)
(*   ET0                      hundredths of a mm (calculate_et0 rounds to   *)
(*                            two decimals)                                *)
(*   water volumes            tenths of a litre                            *)
(*   scores                   tenths of a point (1000 is 100.0)            *)
(*   SPI, stress index        hundredths                                   *)
(* Python's None is the record None; an optional number is None or Num(n). *)
(* round(x, k) works on binary floats, so an exact decimal tie may go to   *)
(* either neighbour: RoundSet returns both, and every operator that rounds *)
(* returns the set of results the computation may give.                    *)
(***************************************************************************)
EXTENDS Integers, Sequences, FiniteSets, TLC

VARIABLES
    call,               \* engine harness: the last engine function called, its arguments and result
    calls,              \* engine harness: how many calls have been made
    droughtFile,        \* datasets/kuraklık-spi-i̇ndeksi.geojson on disk
    watershedFile,      \* datasets/havza_sinirlari.geojson on disk
    shapelyInstalled,   \* whether "from shapely.geometry import shape, Point" succeeds
    _drought_geojson_cache,    \* utils._drought_geojson_cache
    _watershed_geojson_cache,  \* utils._watershed_geojson_cache
    droughtOut,         \* outcome of the last get_drought_risk_from_geojson call
    basinOut,           \* outcome of the last get_watershed_for_location call
    weather_data,       \* st.session_state.weather_data (farmer mode)
    decision,           \* what the last farmer-mode rerun computed
    sidebar,            \* farmer-mode sidebar widgets: user_type, area, kc
    last_clicked,       \* map_data["last_clicked"] of the location map
    parses,             \* how many times json.load ran on each dataset file
    threads,            \* host threads inside a dataset loader: position and locals
    DATASET_CACHE,      \* utils.DATASET_CACHE: cache key -> loaded table
    datasetFiles        \* the regional dataset files of datasets/ on disk, by name

vars == <<call, calls, droughtFile, watershedFile, shapelyInstalled,
          _drought_geojson_cache, _watershed_geojson_cache,
          droughtOut, basinOut, weather_data, decision, sidebar, last_clicked,
          parses, threads, DATASET_CACHE, datasetFiles>>

sessionVars == <<weather_data, decision, sidebar, last_clicked>>

hazardVars == <<droughtFile, watershedFile, shapelyInstalled,
                _drought_geojson_cache, _watershed_geojson_cache,
                droughtOut, basinOut, parses, threads, DATASET_CACHE, datasetFiles>>

datasetVars == <<DATASET_CACHE, datasetFiles>>

-----------------------------------------------------------------------------
(* Values *)

None == [k |-> "None", v |-> 0]
Num(n) == [k |-> "num", v |-> n]
IsNum(x) == x.k = "num"

Max(a, b) == IF a >= b THEN a ELSE b
Min(a, b) == IF a <= b THEN a ELSE b

\* round(n / d) as Python's round gives it for a float: the nearest integer,
\* and either neighbour when n / d is an exact tie in decimal.
RoundSet(n, d) ==
    LET f == n \div d
        r == n % d
    IN  IF 2 * r < d THEN {f}
        ELSE IF 2 * r > d THEN {f + 1}
        ELSE {f, f + 1}

-----------------------------------------------------------------------------
(* calculate_et0, calculate_water_need *)

\* max(0, et0) removed: the raw value is rounded as it is.
calculate_et0_NoFloor(temp, humidity, wind) ==
    RoundSet(350 * temp + 450 * wind - 25 * humidity, 100)

\* et0 = 0.35*temp + 0.45*wind - 0.25*(humidity/100), in 1/10000 mm:
\* 350*temp10 + 450*wind10 - 25*humidity; round(max(0, et0), 2).
calculate_et0(temp, humidity, wind) ==
    LET et0 == 350 * temp + 450 * wind - 25 * humidity
    IN  RoundSet(Max(0, et0), 100)

\* water_need = et0 * area * kc, rounded to one decimal. area in m2, kc in
\* hundredths: et0c * area * kc100 is in 1/10000 litre.
calculate_water_need(et0, area, kc) ==
    RoundSet(et0 * area * kc, 1000)

-----------------------------------------------------------------------------
(* calculate_decision_confidence *)

\* The final min(100, ...) left out.
calculate_decision_confidence_NoCap(et0, forecast_count, strategy_type, rain_expected, weather_risk) ==
    LET data_confidence == IF forecast_count >= 8 THEN 40
                           ELSE IF forecast_count >= 5 THEN 30
                           ELSE IF forecast_count >= 3 THEN 20 ELSE 10
        et0_confidence == IF 0 < et0 /\ et0 < 1000 THEN 25
                          ELSE IF 0 < et0 /\ et0 < 1500 THEN 20 ELSE 15
        strategy_confidence == IF strategy_type = "water_saving" THEN 20
                               ELSE IF strategy_type = "risk_aware" THEN 15 ELSE 18
        weather_confidence == IF weather_risk = "low" THEN 15
                              ELSE IF weather_risk = "medium" THEN 10 ELSE 5
        rain_bonus == IF rain_expected THEN 5 ELSE 0
    IN  10 * (data_confidence + et0_confidence + strategy_confidence
              + weather_confidence + rain_bonus)

\* The ET0 term with the second band closed at both ends: 20 for
\* 10 <= et0 <= 15.
calculate_decision_confidence_WideBand(et0, forecast_count, strategy_type, rain_expected, weather_risk) ==
    LET data_confidence == IF forecast_count >= 8 THEN 40
                           ELSE IF forecast_count >= 5 THEN 30
                           ELSE IF forecast_count >= 3 THEN 20 ELSE 10
        et0_confidence == IF 0 < et0 /\ et0 < 1000 THEN 25
                          ELSE IF 0 < et0 /\ et0 <= 1500 THEN 20 ELSE 15
        strategy_confidence == IF strategy_type = "water_saving" THEN 20
                               ELSE IF strategy_type = "risk_aware" THEN 15 ELSE 18
        weather_confidence == IF weather_risk = "low" THEN 15
                              ELSE IF weather_risk = "medium" THEN 10 ELSE 5
        rain_bonus == IF rain_expected THEN 5 ELSE 0
        total_confidence == data_confidence + et0_confidence + strategy_confidence
                            + weather_confidence + rain_bonus
    IN  10 * Min(100, Max(0, total_confidence))

\* The result in tenths of a point; the sum is an integer, so round(.., 1)
\* changes nothing.
calculate_decision_confidence(et0, forecast_count, strategy_type, rain_expected, weather_risk) ==
    LET data_confidence == IF forecast_count >= 8 THEN 40
                           ELSE IF forecast_count >= 5 THEN 30
                           ELSE IF forecast_count >= 3 THEN 20 ELSE 10
        et0_confidence == IF 0 < et0 /\ et0 < 1000 THEN 25
                          ELSE IF 0 < et0 /\ et0 < 1500 THEN 20 ELSE 15
        strategy_confidence == IF strategy_type = "water_saving" THEN 20
                               ELSE IF strategy_type = "risk_aware" THEN 15 ELSE 18
        weather_confidence == IF weather_risk = "low" THEN 15
                              ELSE IF weather_risk = "medium" THEN 10 ELSE 5
        rain_bonus == IF rain_expected THEN 5 ELSE 0
        total_confidence == data_confidence + et0_confidence + strategy_confidence
                            + weather_confidence + rain_bonus
    IN  10 * Min(100, Max(0, total_confidence))

-----------------------------------------------------------------------------
(* generate_ai_irrigation_strategy *)
(* The message texts are named, not spelled out: recommendation is the name *)
(* of the text block chosen, reasoning the list of its lines, action_items  *)
(* the name of the action list.                                            *)

PUBLIC_MODE == "public"      \* "🏛 Kamu / Belediye Modu"
FARMER_MODE == "farmer"      \* "👩‍🌾 Bireysel / Çiftçi Modu"

\* components.get_user_type_config(user_type).complexity; an unknown user
\* type gets the home garden configuration.
user_type_complexity(user_type) ==
    CASE user_type = "small_scale" -> "moderate"
      [] user_type = "commercial" -> "advanced"
      [] user_type = "large_farm" -> "expert"
      [] OTHER -> "simple"

\* components.get_user_type_config(user_type).tone
user_type_tone(user_type) ==
    CASE user_type = "small_scale" -> "professional"
      [] user_type = "commercial" -> "data_driven"
      [] user_type = "large_farm" -> "analytical"
      [] OTHER -> "friendly"

\* The weather risk test with the medium band dropped.
weather_risk_of_NoMedium(temp, humidity, wind) ==
    IF temp > 300 \/ humidity < 30 \/ wind > 50 THEN "high" ELSE "low"

\* weather_risk = "low"; if temp > 30 or humidity < 30 or wind > 5: "high";
\* elif temp > 25 or humidity < 40: "medium"
weather_risk_of(temp, humidity, wind) ==
    IF temp > 300 \/ humidity < 30 \/ wind > 50 THEN "high"
    ELSE IF temp > 250 \/ humidity < 40 THEN "medium"
    ELSE "low"

field_size_category_of(platform_mode, area) ==
    IF platform_mode = PUBLIC_MODE THEN "regional"
    ELSE IF area < 50 THEN "small"
    ELSE IF area < 500 THEN "medium"
    ELSE "large"

\* geojson_drought_category in ("High", "Extreme")
geojson_force_water_saving_of(geojson_drought_category) ==
    geojson_drought_category \in {"High", "Extreme"}

\* bool(basin_water_stressed): basin_water_stressed is "None", "False" or "True".
basin_force_of(basin_water_stressed) ==
    basin_water_stressed = "True"

\* drought_risk_score and drought_risk_score > 2 (None and 0 are falsy)
drought_score_high(drought_risk_score) ==
    IsNum(drought_risk_score) /\ drought_risk_score.v # 0 /\ drought_risk_score.v > 20

\* The branch order changed: the weather risk is tested before the
\* water-saving triggers.
strategy_type_of_RiskFirst(et0, humidity, temp, wind, rain_expected, drought_risk_score, geojson_drought_category, basin_water_stressed) ==
    IF weather_risk_of(temp, humidity, wind) = "high" \/ drought_score_high(drought_risk_score)
    THEN "risk_aware"
    ELSE IF rain_expected \/ et0 < 200
            \/ geojson_force_water_saving_of(geojson_drought_category)
            \/ basin_force_of(basin_water_stressed)
    THEN "water_saving"
    ELSE "recommended"

\* A branch left without an assignment: strategy_type keeps its initial None.
strategy_type_of_Unset(et0, humidity, temp, wind, rain_expected, drought_risk_score, geojson_drought_category, basin_water_stressed) ==
    IF rain_expected \/ et0 < 200
       \/ geojson_force_water_saving_of(geojson_drought_category)
       \/ basin_force_of(basin_water_stressed)
    THEN "water_saving"
    ELSE IF weather_risk_of(temp, humidity, wind) = "high" \/ drought_score_high(drought_risk_score)
    THEN "risk_aware"
    ELSE IF weather_risk_of(temp, humidity, wind) = "medium" THEN "None"
    ELSE "recommended"

\* The drought score ignored in the second branch.
strategy_type_of_NoScore(et0, humidity, temp, wind, rain_expected, drought_risk_score, geojson_drought_category, basin_water_stressed) ==
    IF rain_expected \/ et0 < 200
       \/ geojson_force_water_saving_of(geojson_drought_category)
       \/ basin_force_of(basin_water_stressed)
    THEN "water_saving"
    ELSE IF weather_risk_of(temp, humidity, wind) = "high"
    THEN "risk_aware"
    ELSE "recommended"

\* The if / elif / else cascade of lines 242, 339 and 378.
strategy_type_of(et0, humidity, temp, wind, rain_expected, drought_risk_score, geojson_drought_category, basin_water_stressed) ==
    IF rain_expected \/ et0 < 200
       \/ geojson_force_water_saving_of(geojson_drought_category)
       \/ basin_force_of(basin_water_stressed)
    THEN "water_saving"
    ELSE IF weather_risk_of(temp, humidity, wind) = "high" \/ drought_score_high(drought_risk_score)
    THEN "risk_aware"
    ELSE "recommended"

\* The names are written in ASCII.
strategy_name_of(strategy_type) ==
    CASE strategy_type = "water_saving" -> "Stratejik Su Koruma Modu"
      [] strategy_type = "risk_aware" -> "Risk Farkindalikli Sulama - Stratejik Yonetim"
      [] OTHER -> "Optimal Sulama Stratejisi"

\* The basin texts tried before the drought texts.
rationale_of_BasinFirst(strategy_type, et0, rain_expected, geojson_drought_category, basin_water_stressed) ==
    IF strategy_type = "water_saving"
    THEN IF basin_force_of(basin_water_stressed) /\ ~rain_expected /\ et0 >= 200
         THEN "basin"
         ELSE IF geojson_force_water_saving_of(geojson_drought_category) /\ ~rain_expected
                 /\ et0 >= 200
         THEN "drought"
         ELSE "rain_low_et0"
    ELSE IF strategy_type = "risk_aware" THEN "risk"
    ELSE "optimal"

\* Which message block of the chosen branch is used: inside the water-saving
\* branch the drought texts replace the default ones when the drought
\* category forces and there is no rain and et0 >= 2; the basin texts when
\* the basin forces, there is no rain, et0 >= 2 and the drought does not force.
rationale_of(strategy_type, et0, rain_expected, geojson_drought_category, basin_water_stressed) ==
    IF strategy_type = "water_saving"
    THEN IF geojson_force_water_saving_of(geojson_drought_category) /\ ~rain_expected /\ et0 >= 200
         THEN "drought"
         ELSE IF basin_force_of(basin_water_stressed) /\ ~rain_expected /\ et0 >= 200
                 /\ ~geojson_force_water_saving_of(geojson_drought_category)
         THEN "basin"
         ELSE "rain_low_et0"
    ELSE IF strategy_type = "risk_aware" THEN "risk"
    ELSE "optimal"

reasoning_of(rationale, platform_mode, rain_expected, drought_risk_score, geojson_drought_category) ==
    LET pub == platform_mode = PUBLIC_MODE
    IN  CASE rationale = "rain_low_et0" ->
               <<"et0_low", IF rain_expected THEN "rain_expected" ELSE "minimal_need",
                 IF pub THEN "regional_priority" ELSE "area">>
          [] rationale = "drought" ->
               <<"spi_drought_" \o geojson_drought_category,
                 IF pub THEN "regional_priority" ELSE "area">>
          [] rationale = "basin" ->
               <<"basin_stress_high", IF pub THEN "regional_priority" ELSE "area">>
          [] rationale = "risk" ->
               IF pub
               THEN <<IF IsNum(drought_risk_score) /\ drought_risk_score.v # 0
                      THEN "drought_score" ELSE "et0_high",
                      "temp_humidity", "regional_pressure">>
               ELSE <<"et0_high", "temp_humidity", "area_risk">>
          [] OTHER ->
               <<"et0_optimal", "temp_humidity", IF pub THEN "regional_area" ELSE "area">>

generate_ai_irrigation_strategy(platform_mode, et0, water_need, area, humidity, temp, wind, rain_expected, drought_risk_score, user_type, geojson_drought_category, basin_water_stressed) ==
    LET weather_risk == weather_risk_of(temp, humidity, wind)
        strategy_type == strategy_type_of(et0, humidity, temp, wind, rain_expected,
                              drought_risk_score, geojson_drought_category, basin_water_stressed)
        rationale == rationale_of(strategy_type, et0, rain_expected,
                                  geojson_drought_category, basin_water_stressed)
        block == <<rationale,
                   platform_mode = PUBLIC_MODE,
                   rationale = "rain_low_et0" /\ platform_mode # PUBLIC_MODE /\ rain_expected>>
        \* friendly tone: the two words replaced occur in no recommendation text;
        \* expert complexity: a sentence of technical details is appended.
        technical == platform_mode = FARMER_MODE /\ user_type # "None"
                     /\ user_type_tone(user_type) # "friendly"
                     /\ user_type_complexity(user_type) = "expert"
    IN  [strategy_type |-> strategy_type,
         strategy_name |-> strategy_name_of(strategy_type),
         recommendation |-> [block |-> block, technical |-> technical],
         reasoning |-> reasoning_of(rationale, platform_mode, rain_expected,
                                    drought_risk_score, geojson_drought_category),
         action_items |-> <<rationale, platform_mode = PUBLIC_MODE>>,
         weather_risk |-> weather_risk,
         field_size_category |-> field_size_category_of(platform_mode, area)]

-----------------------------------------------------------------------------
(* calculate_sustainability_metrics *)

NaN == [k |-> "nan", v |-> 0]    \* a float nan (a missing cell of a pandas table)

Clamp(x, lo, hi) == Max(lo, Min(hi, x))

\* water_need in tenths of a litre, et0 in hundredths. water_saved before
\* rounding is kept in hundredths of a litre (saved100).
calculate_sustainability_metrics(water_need, et0, area, rain_expected, strategy_type, platform_mode) ==
    LET base_water == water_need
        saved100 == IF strategy_type = "water_saving" THEN 10 * base_water
                    ELSE IF strategy_type = "risk_aware" THEN 2 * base_water
                    ELSE base_water
        \* water_savings_ratio * 100, capped at 100; 100 when no water is needed
        efficiency_score == IF base_water > 0
                            THEN Min(100, IF strategy_type = "water_saving" THEN 100
                                          ELSE IF strategy_type = "risk_aware" THEN 20 ELSE 10)
                            ELSE 100
        timing_score == IF rain_expected THEN 100
                        ELSE IF strategy_type = "water_saving" THEN 95 ELSE 80
        \* max(0, min(100, 100 - et0 * 5)), in hundredths of a point
        environmental100 == Max(0, Min(10000, 10000 - 5 * et0))
        \* efficiency*0.4 + timing*0.3 + environmental*0.3, in thousandths
        total1000 == efficiency_score * 400 + timing_score * 300 + environmental100 * 3
        cost_div == IF platform_mode = PUBLIC_MODE THEN 10 ELSE 100
    IN  { [water_saved |-> ws,
           sustainability_score |-> Max(0, Min(1000, sc)),
           cost_saved_tl |-> cost,
           co2_saved_kg |-> co2,
           environmental_impact_level |->
               IF saved100 > 2000000 THEN "Yuksek Etki"
               ELSE IF saved100 > 1000000 THEN "Orta Etki" ELSE "Dusuk Etki",
           base_water |-> base_water,
           score_breakdown |-> [efficiency |-> 10 * efficiency_score,
                                timing |-> 10 * timing_score,
                                environmental |-> env]] :
          ws \in RoundSet(saved100, 10),
          sc \in RoundSet(total1000, 100),
          cost \in RoundSet(saved100, cost_div),
          co2 \in RoundSet(saved100, 2000),
          env \in RoundSet(environmental100, 10) }

-----------------------------------------------------------------------------
(* enhance_sustainability_with_regional_data *)
(* The factors are kept in 1/3000 (3000 is 1.0): the stress index and the   *)
(* SPI come in hundredths, the adoption rate in percent.                    *)

\* max(lo, min(hi, x)) on floats: min(hi, nan) is hi, so a nan gives hi.
ClampFloat(x, lo, hi) == IF x.k = "nan" THEN hi ELSE Clamp(x.v, lo, hi)

\* 1.0 + (0.5 - water_stress), clamped to [0.5, 1.5]
water_availability_factor_of(water_resources) ==
    IF water_resources.data_available /\ water_resources.water_stress_index # None
    THEN LET ws == water_resources.water_stress_index
         IN  Num(ClampFloat([k |-> ws.k, v |-> 30 * (150 - ws.v)], 1500, 4500))
    ELSE None

\* 1.0 + spi_index / 6.0, clamped to [0.5, 1.2]
drought_impact_factor_of(drought_risk) ==
    IF drought_risk.data_available /\ drought_risk.spi_index # None
    THEN LET spi == drought_risk.spi_index
         IN  Num(ClampFloat([k |-> spi.k, v |-> 3000 + 5 * spi.v], 1500, 3600))
    ELSE None

\* 0.8 + adoption_rate / 250.0, clamped to [0.8, 1.2]
agricultural_efficiency_factor_of(agricultural_data) ==
    IF agricultural_data.data_available /\ agricultural_data.farmer_adoption_rate # None
    THEN LET a == agricultural_data.farmer_adoption_rate
         IN  Num(ClampFloat([k |-> a.k, v |-> 2400 + 12 * a.v], 2400, 3600))
    ELSE None

\* 0.85 when the basin is available and its label is "Yüksek"
basin_stress_factor_of(watershed) ==
    IF watershed.data_available /\ watershed.water_stress_label = "Yuksek"
    THEN Num(2550) ELSE None

RECURSIVE SumFactors(_)
SumFactors(fs) == IF fs = <<>> THEN 0 ELSE Head(fs).v + SumFactors(Tail(fs))

\* A factor that is absent counted as 1.0 in the mean.
PresentFactors_Padded(fs) == [i \in 1..Len(fs) |-> IF fs[i] # None THEN fs[i] ELSE Num(3000)]

PresentFactors(fs) == SelectSeq(fs, LAMBDA f : f # None)

\* base_score * composite_factor with no max(0, min(100, ..)) around it.
adjusted_score_of_NoClamp(base_score, factors) ==
    RoundSet(base_score * SumFactors(factors), Len(factors) * 3000)

\* adjusted_score = max(0, min(100, base_score * sum(factors) / len(factors))),
\* then round(adjusted_score, 1)
adjusted_score_of(base_score, factors) ==
    LET n == base_score * SumFactors(factors)
        d == Len(factors) * 3000
    IN  IF n >= 1000 * d THEN {1000}
        ELSE IF n <= 0 THEN {0}
        ELSE RoundSet(n, d)

enhance_sustainability_with_regional_data(base_metrics, regional_intelligence) ==
    LET water_resources == regional_intelligence.water_resources
        drought_risk == regional_intelligence.drought_risk
        agricultural_data == regional_intelligence.agricultural_data
        watershed == regional_intelligence.watershed
        all == <<water_availability_factor_of(water_resources),
                 drought_impact_factor_of(drought_risk),
                 agricultural_efficiency_factor_of(agricultural_data),
                 basin_stress_factor_of(watershed)>>
        \* any([...]) is truthiness: a factor of 0 would not count, none can be 0
        has_any == \E i \in 1..4 : all[i] # None /\ all[i].v # 0
        data_available == has_any \/ water_resources.data_available
                          \/ drought_risk.data_available
                          \/ agricultural_data.data_available
                          \/ watershed.data_available
        regional_context == [water_availability_factor |-> all[1],
                             drought_impact_factor |-> all[2],
                             agricultural_efficiency_factor |-> all[3],
                             basin_stress_factor |-> all[4],
                             data_available |-> data_available]
        factors == PresentFactors(all)
        base_score == base_metrics.sustainability_score
    IN  IF data_available /\ factors # <<>>
        \* enhanced_metrics = base_metrics.copy() with keys added or replaced;
        \* a key that is not set is None / FALSE here
        THEN { [sustainability_score |-> sc,
                regional_context |-> regional_context,
                sustainability_score_original |-> Num(base_score),
                regional_adjustment_applied |-> TRUE] @@ base_metrics :
               sc \in adjusted_score_of(base_score, factors) }
        ELSE { [regional_context |-> regional_context,
                sustainability_score_original |-> None,
                regional_adjustment_applied |-> FALSE] @@ base_metrics }

-----------------------------------------------------------------------------
(* simulate_scenarios *)
(* Water in tenths of a litre, ET0 in hundredths of a mm. The scenarios     *)
(* are named here by their keys; each has one display name of its own.      *)

ScenarioOrder == <<"today", "delay", "water_saving", "normal">>

\* min(scenarios.values(), key=water_used): the first of the least, in the
\* order the scenarios were inserted.
LeastScenario(scenarios) ==
    ScenarioOrder[CHOOSE i \in 1..4 :
        /\ \A j \in 1..4 : scenarios[ScenarioOrder[i]].water_used
                                <= scenarios[ScenarioOrder[j]].water_used
        /\ \A j \in 1..(i - 1) : scenarios[ScenarioOrder[j]].water_used
                                     # scenarios[ScenarioOrder[i]].water_used]

\* max(scenarios.values(), key=water_used): the first of the greatest
MostScenario(scenarios) ==
    ScenarioOrder[CHOOSE i \in 1..4 :
        /\ \A j \in 1..4 : scenarios[ScenarioOrder[i]].water_used
                                >= scenarios[ScenarioOrder[j]].water_used
        /\ \A j \in 1..(i - 1) : scenarios[ScenarioOrder[j]].water_used
                                     # scenarios[ScenarioOrder[i]].water_used]

\* future_water = current_water_need * (future_et0 / max(current_et0, 0.1))
\* with future_et0 = current_et0 * 0.9, or current_water_need * 1.1 without
\* a forecast; rounded to one decimal.
delay_water_of(current_water_need, current_et0, has_forecast) ==
    IF has_forecast
    THEN IF current_et0 >= 10
         THEN RoundSet(9 * current_water_need, 10)
         ELSE RoundSet(9 * current_water_need * current_et0, 100)
    ELSE RoundSet(11 * current_water_need, 10)

\* delay_score = 85 if future_et0 < current_et0 else 70; 65 without a forecast
delay_score_of(current_et0, has_forecast) ==
    IF has_forecast THEN (IF current_et0 > 0 THEN 85 ELSE 70) ELSE 65

\* has_forecast: whether forecast_data is truthy. area and platform_mode are
\* not read by the function.
simulate_scenarios(current_water_need, current_et0, rain_expected, has_forecast) ==
    { LET scenarios ==
              [today |-> [water_used |-> IF rain_expected \/ current_et0 < 200
                                         THEN 0 ELSE current_water_need,
                          sustainability_score |-> IF rain_expected \/ current_et0 < 200
                                                   THEN 95 ELSE 75],
               delay |-> [water_used |-> future_water,
                          sustainability_score |-> delay_score_of(current_et0, has_forecast)],
               water_saving |-> [water_used |-> water_saving_water,
                                 sustainability_score |-> 90],
               normal |-> [water_used |-> normal_water, sustainability_score |-> 60]]
          best_scenario == LeastScenario(scenarios)
          worst_scenario == MostScenario(scenarios)
      IN  [scenarios |-> scenarios,
           best_scenario |-> best_scenario,
           worst_scenario |-> worst_scenario,
           water_difference |-> scenarios[worst_scenario].water_used
                                - scenarios[best_scenario].water_used,
           recommended_scenario |-> "today"] :
      future_water \in delay_water_of(current_water_need, current_et0, has_forecast),
      water_saving_water \in RoundSet(6 * current_water_need, 10),
      normal_water \in RoundSet(12 * current_water_need, 10) }

-----------------------------------------------------------------------------
(* analyze_hourly_irrigation *)

\* One entry of forecast["list"]: temp and wind in tenths, humidity in
\* percent, rain whether the entry has a non-empty "rain" field. dt_txt is
\* the position of the slot in time, 1 for the earliest; 0 stands for None.
Hour(dt_txt, temp, humidity, wind, rain) ==
    [dt_txt |-> dt_txt, temp |-> temp, humidity |-> humidity, wind |-> wind, rain |-> rain]

DefaultHours == 8

Take(seq, n) == SubSeq(seq, 1, Min(n, Len(seq)))

\* score = humidity*0.4 - temp*0.3 - wind*0.6, in hundredths:
\* 40*humidity - 3*temp10 - 6*wind10.
HourScore(hour) == 40 * hour.humidity - 3 * hour.temp - 6 * hour.wind

SameReadings(a, b) ==
    a.temp = b.temp /\ a.humidity = b.humidity /\ a.wind = b.wind

\* "score > best_score" on the two floats. Equal readings give equal
\* floats. Different readings of equal exact score give floats that may
\* differ in the last place either way: (16, 35, 7) gives 4.999999999999999
\* and (18, 35, 6) gives 5.000000000000002.
ScoreGreater(hour, best) ==
    IF HourScore(hour) # HourScore(best) THEN {HourScore(hour) > HourScore(best)}
    ELSE IF SameReadings(hour, best) THEN {FALSE}
    ELSE {TRUE, FALSE}

\* The loop from slot i on, best the index of the best slot so far (0: none,
\* best_score still -9999): the indexes the loop may end with.
RECURSIVE BestFrom(_, _, _)
BestFrom(window, i, best) ==
    IF i > Len(window) THEN {best}
    ELSE LET greater == IF best = 0 THEN {HourScore(window[i]) > -999900}
                        ELSE ScoreGreater(window[i], window[best])
         IN  UNION { BestFrom(window, i + 1, IF g THEN i ELSE best) : g \in greater }

\* analyze_hourly_irrigation(forecast_data, hours): the possible results. Of
\* the data frame the rows' time and score are kept.
analyze_hourly_irrigation(forecast_data, hours) ==
    LET window == Take(forecast_data, hours)
    IN  { [rows |-> [i \in 1..Len(window) |->
                        [Saat |-> window[i].dt_txt, score |-> HourScore(window[i])]],
           best_hour |-> IF best = 0 THEN 0 ELSE window[best].dt_txt,
           best_score |-> IF best = 0 THEN -999900 ELSE HourScore(window[best]),
           rain_expected |-> \E i \in 1..Len(window) : window[i].rain] :
          best \in BestFrom(window, 1, 0) }

-----------------------------------------------------------------------------
(* _spi_to_drought_category: the index in hundredths *)

\* Boundaries made exclusive.
_spi_to_drought_category_Strict(spi) ==
    IF spi > -50 THEN "Low"
    ELSE IF spi > -100 THEN "Medium"
    ELSE IF spi > -150 THEN "High"
    ELSE "Extreme"

_spi_to_drought_category(spi) ==
    IF spi >= -50 THEN "Low"
    ELSE IF spi >= -100 THEN "Medium"
    ELSE IF spi >= -150 THEN "High"
    ELSE "Extreme"

-----------------------------------------------------------------------------
(* The engine functions called on their own: one call, on arguments drawn   *)
(* from the sets below, and the same call made again.                       *)

MissingFile == [st |-> "missing", data |-> <<>>]
NoCache == [t |-> "None"]
\* No resolver call made yet.
NoOutcome == [query |-> [lat |-> 0, lon |-> 0],
              outcome |-> [st |-> "none", exc |-> "", value |-> <<>>]]
NoCall == [fn |-> "none", args |-> <<>>, result |-> <<>>]
NoParses == [drought |-> 0, watershed |-> 0]

Threads == {1, 2}
IdleThread == [pc |-> "idle", dataset |-> "none", data |-> NoCache, result |-> NoCache]
ThreadsIdle == [t \in Threads |-> IdleThread]

\* The regional datasets: the names load_regional_dataset is called with, the
\* formats it knows and the two files of each dataset.
DatasetTypes == {"water_resources", "drought_risk"}
FileFormats == {"auto", "csv", "json"}

CacheKey(dataset_type, file_format) == dataset_type \o "_" \o file_format
CacheKeys == { CacheKey(dataset_type, file_format) :
                 dataset_type \in DatasetTypes, file_format \in FileFormats }

CsvPath(dataset_type) == dataset_type \o ".csv"
JsonPath(dataset_type) == dataset_type \o ".json"
DatasetPaths == { CsvPath(dataset_type) : dataset_type \in DatasetTypes }
                  \cup { JsonPath(dataset_type) : dataset_type \in DatasetTypes }

\* A key that is not in DATASET_CACHE
NotCached == [t |-> "absent", columns |-> {}, rows |-> <<>>]

\* DATASET_CACHE = {} and an empty datasets directory
DatasetsIdle ==
    /\ DATASET_CACHE = [key \in CacheKeys |-> NotCached]
    /\ datasetFiles = [path \in DatasetPaths |-> MissingFile]

HazardIdle ==
    /\ droughtFile = MissingFile
    /\ watershedFile = MissingFile
    /\ shapelyInstalled = TRUE
    /\ DatasetsIdle
    /\ _drought_geojson_cache = NoCache
    /\ _watershed_geojson_cache = NoCache
    /\ droughtOut = NoOutcome
    /\ basinOut = NoOutcome
    /\ parses = NoParses
    /\ threads = ThreadsIdle

\* The sidebar as first rendered: the first user type with its default area
\* and the first plant of its list.
DefaultSidebar == [user_type |-> "home_garden", area |-> 10, kc |-> 100]

NoDecision == [st |-> "none"]

SessionIdle ==
    /\ weather_data = None
    /\ decision = NoDecision
    /\ sidebar = DefaultSidebar
    /\ last_clicked = None

Temps == {250, 280, 300, 350}
Humidities == {29, 30, 35, 40}
Winds == {20, 50, 60}
Et0s == {199, 200, 1061}
DroughtScores == {None, Num(0), Num(20), Num(21)}
DroughtCategories == {"None", "Low", "Medium", "High", "Extreme"}
BasinFlags == {"None", "False", "True"}
PlatformModes == {PUBLIC_MODE, FARMER_MODE}
Areas == {10, 50, 500}
UserTypes == {"None", "large_farm"}

CallStrategy ==
    /\ call.fn = "none"
    /\ \E platform_mode \in PlatformModes, et0 \in Et0s, area \in Areas,
          humidity \in Humidities, temp \in Temps, wind \in Winds,
          rain_expected \in BOOLEAN, drought_risk_score \in DroughtScores,
          user_type \in UserTypes, geojson_drought_category \in DroughtCategories,
          basin_water_stressed \in BasinFlags :
            call' = [fn |-> "generate_ai_irrigation_strategy",
                     args |-> [platform_mode |-> platform_mode, et0 |-> et0, area |-> area,
                               humidity |-> humidity, temp |-> temp, wind |-> wind,
                               rain_expected |-> rain_expected,
                               drought_risk_score |-> drought_risk_score,
                               user_type |-> user_type,
                               geojson_drought_category |-> geojson_drought_category,
                               basin_water_stressed |-> basin_water_stressed],
                     result |-> generate_ai_irrigation_strategy(platform_mode, et0, 0, area,
                                    humidity, temp, wind, rain_expected, drought_risk_score,
                                    user_type, geojson_drought_category, basin_water_stressed)]
    /\ calls' = 1
    /\ UNCHANGED <<hazardVars, sessionVars>>

InitEngine == call = NoCall /\ calls = 0 /\ HazardIdle /\ SessionIdle

SpecStrategy == InitEngine /\ [][CallStrategy]_vars

(* C1: whenever rain is expected, or ET0 < 2, or the drought category is    *)
(* High or Extreme, or the basin is flagged water-stressed, the strategy    *)
(* returned is water_saving, whatever temperature, humidity, wind and       *)
(* drought_risk_score are.                                                  *)
IsStrategyCall == call.fn = "generate_ai_irrigation_strategy"

WaterSavingTrigger(a) ==
    \/ a.rain_expected
    \/ a.et0 < 200
    \/ a.geojson_drought_category \in {"High", "Extreme"}
    \/ a.basin_water_stressed = "True"

Thm_C1 ==
    (IsStrategyCall /\ WaterSavingTrigger(call.args))
        => call.result.strategy_type = "water_saving"

\* Rain expected at 35 degrees, dry air and strong wind, a drought score above 2.
Wit_C1 ==
    /\ IsStrategyCall
    /\ call.args.rain_expected /\ call.args.temp = 350 /\ call.args.humidity = 29
    /\ call.args.wind = 60 /\ call.args.drought_risk_score = Num(21)
    /\ call.args.et0 >= 200
    /\ call.result.strategy_type = "water_saving"

(* C2: the strategy_type returned is exactly one of water_saving,           *)
(* risk_aware, recommended; it is never None.                               *)
Thm_C2 ==
    IsStrategyCall
        => call.result.strategy_type \in {"water_saving", "risk_aware", "recommended"}

\* The fallback branch: no trigger, medium weather risk.
Wit_C2 ==
    /\ IsStrategyCall
    /\ ~WaterSavingTrigger(call.args)
    /\ call.result.weather_risk = "medium"
    /\ call.result.strategy_type = "recommended"

(* C3: when no WaterSaving trigger holds, the strategy is risk_aware if and *)
(* only if temperature > 30 or humidity < 30 or wind > 5 or the drought     *)
(* risk score exceeds 2, and recommended in every other case.               *)
RiskAwareTrigger(a) ==
    \/ a.temp > 300
    \/ a.humidity < 30
    \/ a.wind > 50
    \/ (a.drought_risk_score.k = "num" /\ a.drought_risk_score.v > 20)

Thm_C3 ==
    (IsStrategyCall /\ ~WaterSavingTrigger(call.args))
        => /\ call.result.strategy_type = "risk_aware" <=> RiskAwareTrigger(call.args)
           /\ call.result.strategy_type = "recommended" <=> ~RiskAwareTrigger(call.args)

\* temp 28, humidity 35, wind 2, no rain, no hazard: recommended, risk medium.
Wit_C3 ==
    /\ IsStrategyCall
    /\ call.args.temp = 280 /\ call.args.humidity = 35 /\ call.args.wind = 20
    /\ ~call.args.rain_expected /\ call.args.et0 = 1061
    /\ call.args.geojson_drought_category = "None"
    /\ call.args.basin_water_stressed = "None"
    /\ call.args.drought_risk_score = None
    /\ call.result.strategy_type = "recommended"
    /\ call.result.weather_risk = "medium"

(* C4: the weather_risk reported is a function of temperature, humidity and *)
(* wind alone, whichever strategy is chosen: high if temp > 30 or           *)
(* humidity < 30 or wind > 5; otherwise medium if temp > 25 or              *)
(* humidity < 40; otherwise low.                                            *)
Thm_C4 ==
    IsStrategyCall
        => LET a == call.args
           IN  call.result.weather_risk =
                 (IF a.temp > 300 \/ a.humidity < 30 \/ a.wind > 50 THEN "high"
                  ELSE IF a.temp > 250 \/ a.humidity < 40 THEN "medium"
                  ELSE "low")

\* A water-saving decision that still reports the medium band.
Wit_C4 ==
    /\ IsStrategyCall
    /\ call.result.strategy_type = "water_saving"
    /\ call.args.temp = 250 /\ call.args.humidity = 35 /\ call.args.wind = 50
    /\ call.result.weather_risk = "medium"

-----------------------------------------------------------------------------
(* The scoring functions called on their own.                               *)

MaxCalls == 3

Et0Temps == {-100, 0, 280, 350}
Et0Humidities == {0, 30, 35, 100}
Et0Winds == {0, 20, 100}

ConfEt0s == {0, 1, 999, 1000, 1499, 1500}
ForecastCounts == {0, 2, 3, 4, 5, 7, 8, 40}
StrategyNames == {"water_saving", "risk_aware", "recommended", "unknown"}
RiskNames == {"low", "medium", "high", "unknown"}

WaterNeeds == {0, 10000}
SustEt0s == {0, 199, 1061, 2500}

OptionalField(vals) == {[data_available |-> FALSE, value |-> None]}
                         \cup {[data_available |-> TRUE, value |-> v] : v \in vals}

RegionalIntelligences ==
    { [water_resources |-> [data_available |-> w.data_available,
                            water_stress_index |-> w.value],
       drought_risk |-> [data_available |-> d.data_available, spi_index |-> d.value],
       agricultural_data |-> [data_available |-> a.data_available,
                              farmer_adoption_rate |-> a.value],
       watershed |-> b] :
      w \in OptionalField({None, Num(0), Num(65), Num(200), NaN}),
      d \in OptionalField({None, Num(-400), Num(-120), Num(300), NaN}),
      a \in OptionalField({None, Num(0), Num(60), Num(150)}),
      b \in {[data_available |-> FALSE, water_stress_label |-> "-"],
             [data_available |-> TRUE, water_stress_label |-> "Yuksek"],
             [data_available |-> TRUE, water_stress_label |-> "Dusuk"]} }

\* What a call of fn on args may return.
Results(fn, args) ==
    CASE fn = "calculate_et0" ->
           calculate_et0(args.temp, args.humidity, args.wind)
      [] fn = "calculate_decision_confidence" ->
           {calculate_decision_confidence(args.et0, args.forecast_count,
                args.strategy_type, args.rain_expected, args.weather_risk)}
      [] fn = "calculate_sustainability_metrics" ->
           calculate_sustainability_metrics(args.water_need, args.et0, args.area,
                args.rain_expected, args.strategy_type, args.platform_mode)
      [] fn = "enhance_sustainability_with_regional_data" ->
           enhance_sustainability_with_regional_data(args.base_metrics,
                args.regional_intelligence)
      [] fn = "analyze_hourly_irrigation" ->
           analyze_hourly_irrigation(args.forecast_data, args.hours)
      [] fn = "_spi_to_drought_category" ->
           {_spi_to_drought_category(args.spi)}
      [] fn = "simulate_scenarios" ->
           simulate_scenarios(args.current_water_need, args.current_et0,
                args.rain_expected, args.has_forecast)
      [] fn = "generate_ai_irrigation_strategy" ->
           {generate_ai_irrigation_strategy(args.platform_mode, args.et0, args.water_need,
                args.area, args.humidity, args.temp, args.wind, args.rain_expected,
                args.drought_risk_score, args.user_type, args.geojson_drought_category,
                args.basin_water_stressed)}

Invoke(fn, args) ==
    /\ \E r \in Results(fn, args) : call' = [fn |-> fn, args |-> args, result |-> r]
    /\ calls' = calls + 1
    /\ UNCHANGED <<hazardVars, sessionVars>>

CallEt0 ==
    /\ call.fn = "none"
    /\ \E temp \in Et0Temps, humidity \in Et0Humidities, wind \in Et0Winds :
          Invoke("calculate_et0", [temp |-> temp, humidity |-> humidity, wind |-> wind])

CallConfidence ==
    /\ call.fn = "none"
    /\ \E et0 \in ConfEt0s, forecast_count \in ForecastCounts,
          strategy_type \in StrategyNames, rain_expected \in BOOLEAN,
          weather_risk \in RiskNames :
          Invoke("calculate_decision_confidence",
                 [et0 |-> et0, forecast_count |-> forecast_count,
                  strategy_type |-> strategy_type, rain_expected |-> rain_expected,
                  weather_risk |-> weather_risk])

CallSustainability ==
    /\ call.fn = "none"
    /\ \E water_need \in WaterNeeds, et0 \in SustEt0s, rain_expected \in BOOLEAN,
          strategy_type \in StrategyNames, platform_mode \in PlatformModes :
          Invoke("calculate_sustainability_metrics",
                 [water_need |-> water_need, et0 |-> et0, area |-> 100,
                  rain_expected |-> rain_expected, strategy_type |-> strategy_type,
                  platform_mode |-> platform_mode])

\* The metrics just computed are handed on with a regional intelligence record.
CallEnhance ==
    /\ call.fn = "calculate_sustainability_metrics"
    /\ calls = 1
    /\ \E regional_intelligence \in RegionalIntelligences :
          Invoke("enhance_sustainability_with_regional_data",
                 [base_metrics |-> call.result,
                  regional_intelligence |-> regional_intelligence])

\* The last call made once more with the same arguments.
CallAgain ==
    /\ call.fn \in {"calculate_et0", "calculate_decision_confidence",
                    "calculate_sustainability_metrics",
                    "enhance_sustainability_with_regional_data"}
    /\ calls < MaxCalls
    /\ Invoke(call.fn, call.args)

NextScore == CallEt0 \/ CallConfidence \/ CallSustainability \/ CallEnhance \/ CallAgain

SpecScore == InitEngine /\ [][NextScore]_vars

(* C8: calculate_decision_confidence returns a value in [0, 100] for every  *)
(* combination of its five inputs, unknown strategy and risk names          *)
(* included, and a second call with the same five inputs returns the value  *)
(* the first one returned.                                                  *)
Thm_C8 ==
    [][call'.fn = "calculate_decision_confidence"
         => /\ 0 <= call'.result /\ call'.result <= 1000
            /\ (call.fn = "calculate_decision_confidence" /\ call.args = call'.args)
                  => call'.result = call.result]_vars

\* The five terms add up to 105 and the function has been called twice.
Wit_C8 ==
    /\ call.fn = "calculate_decision_confidence"
    /\ calls = 2
    /\ call.args.forecast_count >= 8 /\ 0 < call.args.et0 /\ call.args.et0 < 1000
    /\ call.args.strategy_type = "water_saving" /\ call.args.weather_risk = "low"
    /\ call.args.rain_expected
    /\ call.result = 1000

(* C9: sustainability_score is in [0, 100] as returned by                   *)
(* calculate_sustainability_metrics and as returned by                      *)
(* enhance_sustainability_with_regional_data, for every combination of      *)
(* regional factors, and so is the preserved sustainability_score_original. *)
InScore(x) == 0 <= x /\ x <= 1000

Thm_C9 ==
    /\ call.fn = "calculate_sustainability_metrics"
          => InScore(call.result.sustainability_score)
    /\ call.fn = "enhance_sustainability_with_regional_data"
          => /\ InScore(call.result.sustainability_score)
             /\ InScore(call.args.base_metrics.sustainability_score)
             /\ call.result.sustainability_score_original # None
                   => InScore(call.result.sustainability_score_original.v)

\* A base score of 97 or more raised by factors above 1: held at 100.
Wit_C9 ==
    /\ call.fn = "enhance_sustainability_with_regional_data"
    /\ call.result.regional_adjustment_applied
    /\ call.result.sustainability_score_original.v >= 970
    /\ call.result.sustainability_score_original.v < 1000
    /\ call.result.regional_context.water_availability_factor = Num(4500)
    /\ call.result.regional_context.drought_impact_factor = Num(3600)
    /\ call.result.sustainability_score = 1000

(* C10: calculate_et0 never returns a negative value: the raw value         *)
(* 0.35*temp + 0.45*wind - 0.25*(humidity/100) is floored at zero before it *)
(* is rounded to two decimals.                                              *)
RawEt0(a) == 350 * a.temp + 450 * a.wind - 25 * a.humidity

Thm_C10 ==
    call.fn = "calculate_et0"
        => /\ call.result >= 0
           /\ RawEt0(call.args) <= 0 => call.result = 0
           /\ RawEt0(call.args) > 0
                 => /\ 100 * call.result - RawEt0(call.args) <= 50
                    /\ RawEt0(call.args) - 100 * call.result <= 50

\* Ten degrees below zero: the raw value is negative, the result 0.
Wit_C10 ==
    /\ call.fn = "calculate_et0"
    /\ call.args.temp = -100
    /\ RawEt0(call.args) < 0
    /\ call.result = 0

-----------------------------------------------------------------------------
(* The hazard datasets and their loaders.                                   *)
(*                                                                          *)
(* A dataset file is missing, unparseable, or parsed to a JSON value. A     *)
(* JSON dict keeps what the resolvers read: its "features", which are       *)
(* absent (no key, null or an empty list), a scalar (a number where a list  *)
(* is expected) or a list. A list entry is a scalar or a dict. A dict       *)
(* without features stands for the empty dict {} as well: the resolvers     *)
(* treat both alike.                                                        *)

Str == [k |-> "str", v |-> 0]     \* a string that is no number

ParsedFile(data) == [st |-> "parsed", data |-> data]
UnparseableFile == [st |-> "unparseable", data |-> <<>>]

JsonList == [t |-> "list", features |-> [k |-> "absent", items |-> <<>>]]
JsonDict(features) == [t |-> "dict", features |-> features]
NoFeatures == [k |-> "absent", items |-> <<>>]
ScalarFeatures == [k |-> "scalar", items |-> <<>>]
FeatureList(items) == [k |-> "list", items |-> items]
EmptyDict == JsonDict(NoFeatures)

\* json.load of the file, kept if it is a dict; {} when the file is missing,
\* cannot be parsed or holds something else.
LoadedGeojson(file) ==
    IF file.st = "missing" THEN EmptyDict
    ELSE IF file.st = "parsed"
    THEN IF file.data.t = "dict" THEN file.data ELSE EmptyDict
    ELSE EmptyDict

\* Whether a loader call runs json.load: the cache is None and the file exists.
JsonLoads(cache, file) == IF cache = NoCache /\ file.st # "missing" THEN 1 ELSE 0

\* The loaders without the "is not None" test: the file is read on every call.
_load_drought_geojson_Uncached(cache, file) == LoadedGeojson(file)
_load_watershed_geojson_Uncached(cache, file) == LoadedGeojson(file)

\* The value returned, which is also the cache afterwards.
_load_drought_geojson(cache, file) ==
    IF cache # NoCache THEN cache ELSE LoadedGeojson(file)

_load_watershed_geojson(cache, file) ==
    IF cache # NoCache THEN cache ELSE LoadedGeojson(file)

-----------------------------------------------------------------------------
(* get_drought_risk_from_geojson *)

Returned(value) == [st |-> "returned", exc |-> "", value |-> value]
Raised(exc) == [st |-> "raised", exc |-> exc, value |-> <<>>]

\* A drought feature: a dict with a geometry (absent, a scalar or a dict
\* with coordinates, a list of numbers and strings) and the three SPI
\* properties (None, a number in hundredths or a string that is no number).
DroughtFeature(geometry, last6month, last3month, last1month) ==
    [k |-> "dict", geometry |-> geometry,
     properties |-> [last6month |-> last6month, last3month |-> last3month,
                     last1month |-> last1month]]
\* No "geometry" key (or null); a geometry that is no dict; a dict with
\* "coordinates" (an empty list stands for a missing key as well).
NoGeometry == [k |-> "absent", coordinates |-> <<>>]
ScalarGeometry == [k |-> "scalar", coordinates |-> <<>>]
PointGeometry(coordinates) == [k |-> "dict", coordinates |-> coordinates]
\* A list entry that is no dict (a number, a string, null).
ScalarFeature == [DroughtFeature(NoGeometry, None, None, None) EXCEPT !.k = "scalar"]

risk_labels(category) ==
    CASE category = "Low" -> "Dusuk"
      [] category = "Medium" -> "Orta"
      [] category = "High" -> "Yuksek"
      [] category = "Extreme" -> "Ekstrem"

\* The placeholder with a number in place of None.
drought_placeholder_Zero ==
    [spi_value |-> Num(0), spi_label |-> None, drought_category |-> "Low",
     risk_label |-> "Dusuk", data_available |-> FALSE, source |-> "Dataset unavailable"]

\* spi_label "—" is None here, a formatted value the number.
drought_placeholder ==
    [spi_value |-> None, spi_label |-> None, drought_category |-> "Low",
     risk_label |-> "Dusuk", data_available |-> FALSE, source |-> "Dataset unavailable"]

\* f.get("geometry") and f["geometry"].get("coordinates") raises
\* AttributeError on an entry or a geometry that is no dict.
FilterRaises(f) == f.k = "scalar" \/ f.geometry.k = "scalar"
FilterKeeps(f) == f.geometry.k = "dict" /\ f.geometry.coordinates # <<>>

\* coords[0], coords[1] and the distance: IndexError on a short list,
\* TypeError on an entry that is no number.
DistanceError(f) ==
    LET coords == f.geometry.coordinates
    IN  IF Len(coords) < 2 THEN "IndexError"
        ELSE IF ~IsNum(coords[1]) \/ ~IsNum(coords[2]) THEN "TypeError"
        ELSE ""

\* d = (lat - plat) ** 2 + (lon - plon) ** 2 with plon, plat = coords[0], coords[1]
SquaredDistance(f, lat, lon) ==
    LET plon == f.geometry.coordinates[1].v
        plat == f.geometry.coordinates[2].v
    IN  (lat - plat) * (lat - plat) + (lon - plon) * (lon - plon)

\* The first kept feature, whatever its distance.
NearestFrom_First(features, i, best, lat, lon) == 1

\* The loop of lines 718-726: the first feature at the least distance.
RECURSIVE NearestFrom(_, _, _, _, _)
NearestFrom(features, i, best, lat, lon) ==
    IF i > Len(features) THEN best
    ELSE IF best = 0
            \/ SquaredDistance(features[i], lat, lon) < SquaredDistance(features[best], lat, lon)
         THEN NearestFrom(features, i + 1, i, lat, lon)
         ELSE NearestFrom(features, i + 1, best, lat, lon)

\* The three fields tried from the shortest period to the longest.
FirstSpi_Reversed(props) ==
    IF props.last1month # None THEN props.last1month
    ELSE IF props.last3month # None THEN props.last3month
    ELSE props.last6month

\* last6month, else last3month, else last1month: the first that is not None.
FirstSpi(props) ==
    IF props.last6month # None THEN props.last6month
    ELSE IF props.last3month # None THEN props.last3month
    ELSE props.last1month

\* Nothing here is inside a try but float(spi): the list comprehension of
\* line 714 and the loop of lines 720-726 raise on an entry they cannot read.
get_drought_risk_from_geojson(geo, lat, lon) ==
    IF geo.features.k = "absent" THEN Returned(drought_placeholder)
    ELSE IF geo.features.k = "scalar" THEN Raised("TypeError")
    ELSE
    LET all == geo.features.items
        features == SelectSeq(all, FilterKeeps)
    IN  IF \E i \in 1..Len(all) : FilterRaises(all[i]) THEN Raised("AttributeError")
        ELSE IF features = <<>> THEN Returned(drought_placeholder)
        ELSE IF \E i \in 1..Len(features) : DistanceError(features[i]) # ""
        THEN LET first == CHOOSE i \in 1..Len(features) :
                              /\ DistanceError(features[i]) # ""
                              /\ \A j \in 1..(i - 1) : DistanceError(features[j]) = ""
             IN  Raised(DistanceError(features[first]))
        ELSE
        LET best == features[NearestFrom(features, 1, 0, lat, lon)]
            spi == FirstSpi(best.properties)
        IN  IF spi = None THEN Returned(drought_placeholder)
            ELSE IF ~IsNum(spi) THEN Returned(drought_placeholder)   \* float(spi) fails
            ELSE Returned([spi_value |-> Num(spi.v),
                           spi_label |-> Num(spi.v),
                           drought_category |-> _spi_to_drought_category(spi.v),
                           risk_label |-> risk_labels(_spi_to_drought_category(spi.v)),
                           data_available |-> TRUE,
                           source |-> "SPI GeoJSON"])

-----------------------------------------------------------------------------
(* get_watershed_for_location *)
(* shapely is not part of the repository. A geometry is kept as what        *)
(* shape() makes of it: "bad" when shape() raises, "invalid" when is_valid  *)
(* is false, or a polygon, here a rectangle with sides along the axes;      *)
(* contains() holds for the points strictly inside.                         *)

BasinGeometry(shape, x1, y1, x2, y2) ==
    [k |-> "dict", coordinates |-> <<Num(x1), Num(y1), Num(x2), Num(y2)>>,
     shape |-> shape]
BasinNoGeometry == [k |-> "absent", coordinates |-> <<>>, shape |-> "bad"]
BasinScalarGeometry == [k |-> "scalar", coordinates |-> <<>>, shape |-> "bad"]
BasinNoCoordinates == [k |-> "dict", coordinates |-> <<>>, shape |-> "bad"]

\* havza_ad, havza_no, h_no, water_stress, su_stresi: a string, or "None"
BasinFeature(geometry, havza_ad, havza_no, h_no, water_stress, su_stresi) ==
    [k |-> "dict", geometry |-> geometry,
     properties |-> [havza_ad |-> havza_ad, havza_no |-> havza_no, h_no |-> h_no,
                     water_stress |-> water_stress, su_stresi |-> su_stresi]]
ScalarBasinFeature ==
    [BasinFeature(BasinNoGeometry, "None", "None", "None", "None", "None") EXCEPT !.k = "scalar"]

watershed_placeholder ==
    [basin_name |-> "-", basin_id |-> "None", water_stress_label |-> "-",
     data_available |-> FALSE, source |-> "Dataset unavailable"]

\* The placeholder flagged available.
watershed_placeholder_Available ==
    [watershed_placeholder EXCEPT !.data_available = TRUE]

\* geom.contains(point) for point = Point(lon, lat)
Contains(geometry, lat, lon) ==
    LET c == geometry.coordinates
    IN  c[1].v < lon /\ lon < c[3].v /\ c[2].v < lat /\ lat < c[4].v

\* str(water_stress).lower()
Lower(str) ==
    CASE str = "High" -> "high"
      [] str = "Medium" -> "medium"
      [] str = "Low" -> "low"
      [] str = "Yuksek" -> "yuksek"
      [] str = "Orta" -> "orta"
      [] str = "Dusuk" -> "dusuk"
      [] OTHER -> str

\* stress_map.get(str(water_stress).lower(), str(water_stress))
stress_map(water_stress) ==
    CASE Lower(water_stress) \in {"low", "dusuk"} -> "Dusuk"
      [] Lower(water_stress) \in {"medium", "orta"} -> "Orta"
      [] Lower(water_stress) \in {"high", "yuksek"} -> "Yuksek"
      [] OTHER -> water_stress

Or(a, b) == IF a # "None" THEN a ELSE b     \* a or b on strings that are not empty

\* The record built at lines 821-836 from the matching feature.
BasinRecord(props) ==
    LET water_stress == Or(props.water_stress, props.su_stresi)
    IN  [basin_name |-> Or(props.havza_ad, "-"),
         basin_id |-> Or(props.havza_no, props.h_no),
         water_stress_label |-> IF water_stress # "None" THEN stress_map(water_stress)
                                ELSE "Veri yok",
         data_available |-> TRUE,
         source |-> "Havza GeoJSON"]

\* The loop run over the features from the last to the first.
RECURSIVE WatershedFrom_Last(_, _, _, _)
WatershedFrom_Last(features, i, lat, lon) ==
    IF i > Len(features) THEN Returned(watershed_placeholder)
    ELSE LET feat == features[Len(features) - i + 1]
             geom_data == feat.geometry
         IN  IF feat.k = "scalar" THEN Raised("AttributeError")
             ELSE IF geom_data.k = "absent" THEN WatershedFrom_Last(features, i + 1, lat, lon)
             ELSE IF geom_data.k = "scalar" THEN Raised("AttributeError")
             ELSE IF geom_data.coordinates = <<>> THEN WatershedFrom_Last(features, i + 1, lat, lon)
             ELSE IF geom_data.shape = "bad" THEN WatershedFrom_Last(features, i + 1, lat, lon)
             ELSE IF geom_data.shape = "polygon" /\ Contains(geom_data, lat, lon)
                  THEN Returned(BasinRecord(feat.properties))
                  ELSE WatershedFrom_Last(features, i + 1, lat, lon)

\* The loop of lines 814-838 from feature i on. feat.get and geom_data.get
\* are outside the try: a feature or a geometry that is no dict raises
\* AttributeError. shape() raising is caught and the feature skipped.
RECURSIVE WatershedFrom(_, _, _, _)
WatershedFrom(features, i, lat, lon) ==
    IF i > Len(features) THEN Returned(watershed_placeholder)
    ELSE LET feat == features[i]
             geom_data == feat.geometry
         IN  IF feat.k = "scalar" THEN Raised("AttributeError")
             ELSE IF geom_data.k = "absent" THEN WatershedFrom(features, i + 1, lat, lon)
             ELSE IF geom_data.k = "scalar" THEN Raised("AttributeError")
             ELSE IF geom_data.coordinates = <<>> THEN WatershedFrom(features, i + 1, lat, lon)
             ELSE IF geom_data.shape = "bad" THEN WatershedFrom(features, i + 1, lat, lon)
             ELSE IF geom_data.shape = "polygon" /\ Contains(geom_data, lat, lon)
                  THEN Returned(BasinRecord(feat.properties))
                  ELSE WatershedFrom(features, i + 1, lat, lon)

get_watershed_for_location(geo, shapely, lat, lon) ==
    IF geo.features.k = "absent" THEN Returned(watershed_placeholder)
    ELSE IF ~shapely THEN Returned(watershed_placeholder)      \* ImportError
    ELSE IF geo.features.k = "scalar" THEN Raised("TypeError")
    ELSE WatershedFrom(geo.features.items, 1, lat, lon)

-----------------------------------------------------------------------------
(* The resolvers called on dataset files in any state.                      *)

MaxFeatures == 2

RECURSIVE SeqsUpTo(_, _)
SeqsUpTo(S, n) ==
    IF n = 0 THEN {<<>>}
    ELSE LET shorter == SeqsUpTo(S, n - 1)
         IN  shorter \cup {Append(q, x) : q \in shorter, x \in S}

\* Point A at (lon 0, lat 0) with a 6-month SPI of -1.20; point B at
\* (lon 4, lat 0) with no SPI at all; point C at (lon 4, lat 0) with a
\* 6-month value that is no number and a 3-month SPI of -0.70.
PointA == DroughtFeature(PointGeometry(<<Num(0), Num(0)>>), Num(-120), None, None)
PointB == DroughtFeature(PointGeometry(<<Num(4), Num(0)>>), None, None, None)
PointC == DroughtFeature(PointGeometry(<<Num(4), Num(0)>>), Str, Num(-70), None)

\* Point D at (lon 3, lat 0) with a 6-month SPI of -0.60 and point E at
\* (lon 9, lat 0) with a 6-month SPI of -1.60: from (lon 1, lat 0) the
\* squared distances to A, D, E are 1, 4, 64, from (lon 5, lat 0) they are
\* 25, 4, 16.
PointD == DroughtFeature(PointGeometry(<<Num(3), Num(0)>>), Num(-60), None, None)
PointE == DroughtFeature(PointGeometry(<<Num(9), Num(0)>>), Num(-160), None, None)

Permutations3(a, b, c) ==
    { <<a, b, c>>, <<a, c, b>>, <<b, a, c>>, <<b, c, a>>, <<c, a, b>>, <<c, b, a>> }

ThreePointFiles ==
    { ParsedFile(JsonDict(FeatureList(items))) : items \in Permutations3(PointA, PointD, PointE) }

DroughtFeatureVals ==
    { ScalarFeature,
      DroughtFeature(NoGeometry, Num(-120), None, None),
      DroughtFeature(ScalarGeometry, Num(-120), None, None),
      DroughtFeature(PointGeometry(<<>>), Num(-120), None, None),
      DroughtFeature(PointGeometry(<<Num(0)>>), Num(-120), None, None),
      DroughtFeature(PointGeometry(<<Str, Str>>), Num(-120), None, None),
      PointA, PointB, PointC }

\* Basin A covers lon 0..2, lat -1..1 and is labelled "High"; basin B covers
\* lon 0..6, lat -1..1 and carries no stress label.
BasinA == BasinFeature(BasinGeometry("polygon", 0, -1, 2, 1), "A", "None", "1", "High", "None")
BasinB == BasinFeature(BasinGeometry("polygon", 0, -1, 6, 1), "B", "7", "None", "None", "None")

BasinFeatureVals ==
    { ScalarBasinFeature,
      BasinFeature(BasinNoGeometry, "X", "None", "None", "High", "None"),
      BasinFeature(BasinScalarGeometry, "X", "None", "None", "High", "None"),
      BasinFeature(BasinNoCoordinates, "X", "None", "None", "High", "None"),
      BasinFeature(BasinGeometry("bad", 0, -1, 6, 1), "X", "None", "None", "High", "None"),
      BasinFeature(BasinGeometry("invalid", 0, -1, 6, 1), "X", "None", "None", "High", "None"),
      BasinA, BasinB }

FilesOf(vals) ==
    {MissingFile, UnparseableFile, ParsedFile(JsonList),
     ParsedFile(JsonDict(ScalarFeatures))}
    \cup {ParsedFile(JsonDict(IF items = <<>> THEN NoFeatures ELSE FeatureList(items))) :
             items \in SeqsUpTo(vals, MaxFeatures)}

\* Points at (lon 5, lat 0) with a 6-month SPI of 0 before two others, with
\* a 3-month and a 1-month SPI only, and with a 1-month SPI only.
PointSix == DroughtFeature(PointGeometry(<<Num(5), Num(0)>>), Num(0), Num(-120), Num(-200))
PointThree == DroughtFeature(PointGeometry(<<Num(5), Num(0)>>), None, Num(-70), Num(-200))
PointOne == DroughtFeature(PointGeometry(<<Num(5), Num(0)>>), None, None, Num(-160))

PriorityFiles ==
    { ParsedFile(JsonDict(FeatureList(<<PointA, point>>))) :
         point \in {PointSix, PointThree, PointOne} }

DroughtFiles == FilesOf(DroughtFeatureVals) \cup ThreePointFiles \cup PriorityFiles
WatershedFiles == FilesOf(BasinFeatureVals)

WellFormedDroughtFile == ParsedFile(JsonDict(FeatureList(<<PointA, PointB>>)))
WellFormedWatershedFile == ParsedFile(JsonDict(FeatureList(<<BasinA, BasinB>>)))

Locations == {[lat |-> 0, lon |-> 1], [lat |-> 0, lon |-> 5]}

\* One dataset is in any state while the other is missing or well formed:
\* neither resolver reads the other's file or cache.
InitFiles ==
    \/ /\ droughtFile \in DroughtFiles
       /\ watershedFile \in {MissingFile, WellFormedWatershedFile}
    \/ /\ droughtFile \in {MissingFile, WellFormedDroughtFile}
       /\ watershedFile \in WatershedFiles

InitHazard ==
    /\ InitFiles
    /\ shapelyInstalled \in BOOLEAN
    /\ DatasetsIdle
    /\ _drought_geojson_cache = NoCache
    /\ _watershed_geojson_cache = NoCache
    /\ droughtOut = NoOutcome
    /\ basinOut = NoOutcome
    /\ parses = NoParses
    /\ threads = ThreadsIdle
    /\ call = NoCall /\ calls = 0
    /\ SessionIdle

\* get_drought_risk_from_geojson(lat, lon): the loader fills the cache, then
\* the features are searched.
ResolveDrought ==
    \E q \in Locations :
        LET geo == _load_drought_geojson(_drought_geojson_cache, droughtFile)
        IN  /\ _drought_geojson_cache' = geo
            /\ droughtOut' = [query |-> q,
                              outcome |-> get_drought_risk_from_geojson(geo, q.lat, q.lon)]
            /\ parses' = [parses EXCEPT
                              !.drought = @ + JsonLoads(_drought_geojson_cache, droughtFile)]
            /\ UNCHANGED <<call, calls, droughtFile, watershedFile, shapelyInstalled, datasetVars,
                           _watershed_geojson_cache, basinOut, sessionVars, threads>>

\* get_watershed_for_location(lat, lon)
ResolveWatershed ==
    \E q \in Locations :
        LET geo == _load_watershed_geojson(_watershed_geojson_cache, watershedFile)
        IN  /\ _watershed_geojson_cache' = geo
            /\ basinOut' = [query |-> q,
                            outcome |-> get_watershed_for_location(geo, shapelyInstalled,
                                                                   q.lat, q.lon)]
            /\ parses' = [parses EXCEPT
                              !.watershed = @ + JsonLoads(_watershed_geojson_cache, watershedFile)]
            /\ UNCHANGED <<call, calls, droughtFile, watershedFile, shapelyInstalled, datasetVars,
                           _drought_geojson_cache, droughtOut, sessionVars, threads>>

NextHazard == ResolveDrought \/ ResolveWatershed

SpecHazard == InitHazard /\ [][NextHazard]_vars

(* C5: get_drought_risk_from_geojson and get_watershed_for_location never   *)
(* raise, whatever the state of the dataset file (missing, not parseable,   *)
(* or parseable but malformed); each call returns a complete result record. *)
Cex_C5 ==
    /\ droughtOut.outcome.st \in {"none", "returned"}
    /\ basinOut.outcome.st \in {"none", "returned"}

(* C7: every result of the two resolvers carries a data_available flag that *)
(* agrees with its content. Drought: data_available is true exactly when    *)
(* spi_value is a number and the source is the dataset label; when it is    *)
(* false, spi_value is absent and the source is 'Dataset unavailable'.      *)
(* Watershed: data_available is false exactly when no basin was matched.    *)
BasinMatched(q) ==
    /\ shapelyInstalled
    /\ _watershed_geojson_cache # NoCache
    /\ _watershed_geojson_cache.features.k = "list"
    /\ \E i \in 1..Len(_watershed_geojson_cache.features.items) :
          LET feat == _watershed_geojson_cache.features.items[i]
          IN  /\ feat.k = "dict"
              /\ feat.geometry.k = "dict"
              /\ feat.geometry.coordinates # <<>>
              /\ feat.geometry.shape = "polygon"
              /\ feat.geometry.coordinates[1].v < q.lon
              /\ q.lon < feat.geometry.coordinates[3].v
              /\ feat.geometry.coordinates[2].v < q.lat
              /\ q.lat < feat.geometry.coordinates[4].v

Thm_C7 ==
    /\ droughtOut.outcome.st = "returned"
          => LET r == droughtOut.outcome.value
             IN  /\ r.data_available \in BOOLEAN
                 /\ r.data_available <=> (r.spi_value.k = "num" /\ r.source = "SPI GeoJSON")
                 /\ ~r.data_available
                       => (r.spi_value = None /\ r.source = "Dataset unavailable")
    /\ basinOut.outcome.st = "returned"
          => LET b == basinOut.outcome.value
             IN  /\ b.data_available \in BOOLEAN
                 /\ ~b.data_available <=> ~BasinMatched(basinOut.query)

\* The drought dataset is there but the nearest point has no index, and the
\* location lies in a basin.
Wit_C7 ==
    /\ droughtOut.outcome.st = "returned"
    /\ _drought_geojson_cache.features.k = "list"
    /\ ~droughtOut.outcome.value.data_available
    /\ droughtOut.outcome.value.spi_value = None
    /\ basinOut.outcome.st = "returned"
    /\ basinOut.outcome.value.data_available
    /\ basinOut.outcome.value.basin_name = "B"

-----------------------------------------------------------------------------
(* Farmer mode: one script run per interaction (src/app.py).                *)

\* geojson_category = drought["drought_category"] if drought.get("data_available") else None
\* with the guard left out.
geojson_category_of_Unguarded(drought) == drought.drought_category

\* geojson_category = drought["drought_category"] if drought.get("data_available") else None
geojson_category_of(drought) ==
    IF drought.data_available THEN drought.drought_category ELSE "None"

\* basin_water_stressed = bool(basin.get("data_available")
\*                             and basin.get("water_stress_label") == "Yuksek")
basin_water_stressed_of(basin) ==
    IF basin.data_available /\ basin.water_stress_label = "Yuksek" THEN "True" ELSE "False"

DEFAULT_LOCATION == [lat |-> 0, lon |-> 1]
ClickLocations == {[lat |-> 0, lon |-> 5]}

\* lat, lon = DEFAULT_LAT, DEFAULT_LON, replaced by the last click if any
SelectedLocation == IF last_clicked = None THEN DEFAULT_LOCATION ELSE last_clicked

\* The location shown as selected used for the lookups.
pipeline_location_Selected(data) == SelectedLocation

\* lat = data.get("lat", DEFAULT_LAT); lon = data.get("lon", DEFAULT_LON):
\* every weather_data the script stores has both keys.
pipeline_location(data) == [lat |-> data.lat, lon |-> data.lon]

\* The part of the script below "if 'weather_data' in st.session_state": the
\* two resolvers, the strategy engine and the confidence score. A resolver
\* that raises ends the run. The regional layer that follows the engine adds
\* insight fields to the strategy and leaves its other fields as they are.
RunPipeline(data, sb) ==
    \E analysis \in analyze_hourly_irrigation(data.forecast, DefaultHours) :
    LET dgeo == _load_drought_geojson(_drought_geojson_cache, droughtFile)
        q == pipeline_location(data)
        dres == get_drought_risk_from_geojson(dgeo, q.lat, q.lon)
        wgeo == _load_watershed_geojson(_watershed_geojson_cache, watershedFile)
        wres == get_watershed_for_location(wgeo, shapelyInstalled, q.lat, q.lon)
    IN  /\ _drought_geojson_cache' = dgeo
        /\ droughtOut' = [query |-> q, outcome |-> dres]
        /\ IF dres.st = "raised"
           THEN /\ decision' = [st |-> "raised", exc |-> dres.exc]
                /\ parses' = [parses EXCEPT
                                  !.drought = @ + JsonLoads(_drought_geojson_cache, droughtFile)]
                /\ UNCHANGED <<_watershed_geojson_cache, basinOut>>
           ELSE /\ _watershed_geojson_cache' = wgeo
                /\ parses' =
                      [drought |-> parses.drought
                                     + JsonLoads(_drought_geojson_cache, droughtFile),
                       watershed |-> parses.watershed
                                     + JsonLoads(_watershed_geojson_cache, watershedFile)]
                /\ basinOut' = [query |-> q, outcome |-> wres]
                /\ IF wres.st = "raised"
                   THEN decision' = [st |-> "raised", exc |-> wres.exc]
                   ELSE LET drought == dres.value
                            basin == wres.value
                            geojson_category == geojson_category_of(drought)
                            basin_water_stressed == basin_water_stressed_of(basin)
                            strategy_data ==
                                generate_ai_irrigation_strategy(FARMER_MODE, data.et0,
                                    data.water_need, sb.area, data.humidity, data.temp,
                                    data.wind, analysis.rain_expected, None, sb.user_type,
                                    geojson_category, basin_water_stressed)
                        IN  decision' =
                              [st |-> "rendered",
                               et0 |-> data.et0,
                               rain_expected |-> analysis.rain_expected,
                               best_hour |-> analysis.best_hour,
                               best_score |-> analysis.best_score,
                               drought |-> drought,
                               basin |-> basin,
                               geojson_category |-> geojson_category,
                               basin_water_stressed |-> basin_water_stressed,
                               strategy_data |-> strategy_data,
                               confidence_score |->
                                   calculate_decision_confidence(data.et0, Len(analysis.rows),
                                       strategy_data.strategy_type, analysis.rain_expected,
                                       strategy_data.weather_risk)]

\* The script run when there is nothing new to fetch: the page is drawn from
\* the stored weather_data, if any.
Redraw(sb) ==
    IF weather_data = None
    THEN /\ decision' = NoDecision
         /\ UNCHANGED <<_drought_geojson_cache, _watershed_geojson_cache, droughtOut,
                        basinOut, parses>>
    ELSE RunPipeline(weather_data, sb)

Sidebars ==
    { DefaultSidebar,
      [user_type |-> "home_garden", area |-> 50, kc |-> 105],
      [user_type |-> "large_farm", area |-> 5000, kc |-> 120] }

\* Current weather as the API returns it: <<temp, humidity, wind>>
Readings == { <<50, 80, 0>>, <<220, 50, 20>>, <<360, 25, 70>> }

DryHours(n) == [i \in 1..n |-> Hour(i, 200 + 10 * i, 50, 20, FALSE)]

Forecasts ==
    { <<>>,
      <<Hour(1, 250, 40, 30, FALSE), Hour(2, 180, 70, 10, TRUE)>>,
      Append(DryHours(8), Hour(9, 180, 70, 10, TRUE)) }

\* The user clicks on the map.
MapClick ==
    /\ \E loc \in ClickLocations : last_clicked' = loc
    /\ sidebar' = sidebar
    /\ weather_data' = weather_data
    /\ Redraw(sidebar)
    /\ UNCHANGED <<call, calls, droughtFile, watershedFile, shapelyInstalled, datasetVars, threads>>

\* The user changes a sidebar widget.
ChangeSidebar ==
    /\ \E sb \in Sidebars \ {sidebar} :
          /\ sidebar' = sb
          /\ Redraw(sb)
    /\ weather_data' = weather_data
    /\ UNCHANGED <<call, calls, droughtFile, watershedFile, shapelyInstalled, datasetVars, last_clicked,
                   threads>>

\* The answer to one request: a JSON document, or no usable answer (no
\* connection, a timeout, an HTTP error status, a body that is no JSON).
OkResponse(body) == [st |-> "ok", body |-> body]
FailedResponse == [st |-> "failed", body |-> <<>>]

Json(v) == [k |-> "json", v |-> v]

WeatherResponses == {FailedResponse} \cup { OkResponse(reading) : reading \in Readings }
ForecastResponses == {FailedResponse} \cup { OkResponse(forecast) : forecast \in Forecasts }

\* Each document returned on its own, None for the request that failed.
fetch_weather_data_Partial(weather_response, forecast_response) ==
    << IF weather_response.st = "ok" THEN Json(weather_response.body) ELSE None,
       IF forecast_response.st = "ok" THEN Json(forecast_response.body) ELSE None >>

\* Anything raised inside the try gives (None, None).
fetch_weather_data(weather_response, forecast_response) ==
    IF weather_response.st = "ok" /\ forecast_response.st = "ok"
    THEN <<Json(weather_response.body), Json(forecast_response.body)>>
    ELSE <<None, None>>

\* if weather and forecast:
BothFetched(fetched) == fetched[1].k = "json" /\ fetched[2].k = "json"

FetchCall(fetched) ==
    [fn |-> "fetch_weather_data", args |-> SelectedLocation, result |-> fetched]

\* The fetch button, both requests answered: weather_data is stored and the
\* script runs again from the top (st.rerun()).
FetchWeather ==
    /\ \E weather_response \in WeatherResponses, forecast_response \in ForecastResponses :
         LET fetched == fetch_weather_data(weather_response, forecast_response)
         IN  /\ BothFetched(fetched)
             /\ call' = FetchCall(fetched)
             /\ LET reading == fetched[1].v
                    forecast == fetched[2].v
                IN  \E et0 \in calculate_et0(reading[1], reading[2], reading[3]) :
                      \E water_need \in calculate_water_need(et0, sidebar.area, sidebar.kc) :
                        LET data == [temp |-> reading[1], humidity |-> reading[2],
                                     wind |-> reading[3], et0 |-> et0,
                                     water_need |-> water_need, forecast |-> forecast,
                                     lat |-> SelectedLocation.lat,
                                     lon |-> SelectedLocation.lon]
                        IN  /\ weather_data' = data
                            /\ RunPipeline(data, sidebar)
    /\ UNCHANGED <<calls, droughtFile, watershedFile, shapelyInstalled, datasetVars,
                   sidebar, last_clicked, threads>>

\* The fetch button, a request failed: fetch_weather_data returns (None, None),
\* an error is shown and the page is drawn from what was stored before.
FetchWeatherFails ==
    /\ \E weather_response \in WeatherResponses, forecast_response \in ForecastResponses :
         LET fetched == fetch_weather_data(weather_response, forecast_response)
         IN  /\ ~BothFetched(fetched)
             /\ call' = FetchCall(fetched)
    /\ weather_data' = weather_data
    /\ Redraw(sidebar)
    /\ UNCHANGED <<calls, droughtFile, watershedFile, shapelyInstalled, datasetVars,
                   sidebar, last_clicked, threads>>

FarmerDroughtFiles ==
    { MissingFile,
      ParsedFile(JsonDict(NoFeatures)),
      WellFormedDroughtFile,
      ParsedFile(JsonDict(FeatureList(
          <<DroughtFeature(PointGeometry(<<Num(0)>>), Num(-120), None, None)>>))) }

InitFarmer ==
    /\ droughtFile \in FarmerDroughtFiles
    /\ watershedFile \in {MissingFile, WellFormedWatershedFile}
    /\ shapelyInstalled \in BOOLEAN
    /\ DatasetsIdle
    /\ _drought_geojson_cache = NoCache
    /\ _watershed_geojson_cache = NoCache
    /\ droughtOut = NoOutcome
    /\ basinOut = NoOutcome
    /\ parses = NoParses
    /\ threads = ThreadsIdle
    /\ call = NoCall /\ calls = 0
    /\ SessionIdle

NextFarmer == MapClick \/ ChangeSidebar \/ FetchWeather \/ FetchWeatherFails

SpecFarmer == InitFarmer /\ [][NextFarmer]_vars

(* C6: in the farmer-mode pipeline a drought assessment with               *)
(* data_available = false is never a water_saving trigger: the category     *)
(* handed to the strategy engine is absent although the record carries the  *)
(* display category Low, and the strategy is water_saving only if rain is   *)
(* expected, ET0 < 2 or the basin is water-stressed.                        *)
Thm_C6 ==
    (decision.st = "rendered" /\ ~decision.drought.data_available)
        => /\ decision.drought.drought_category = "Low"
           /\ decision.geojson_category = "None"
           /\ decision.strategy_data.strategy_type = "water_saving"
                 => \/ decision.rain_expected
                    \/ decision.et0 < 200
                    \/ decision.basin_water_stressed = "True"

\* The drought dataset is missing or empty and the page shows a strategy
\* other than water_saving.
Wit_C6 ==
    /\ decision.st = "rendered"
    /\ droughtFile \in {MissingFile, ParsedFile(JsonDict(NoFeatures))}
    /\ ~decision.drought.data_available
    /\ decision.drought.drought_category = "Low"
    /\ decision.strategy_data.strategy_type = "risk_aware"

-----------------------------------------------------------------------------
(* Hazard resolution *)

\* The points of the cached drought dataset that have coordinates.
CachedPoints ==
    IF _drought_geojson_cache = NoCache \/ _drought_geojson_cache.features.k # "list"
    THEN {}
    ELSE { i \in 1..Len(_drought_geojson_cache.features.items) :
              LET f == _drought_geojson_cache.features.items[i]
              IN  f.k = "dict" /\ f.geometry.k = "dict" /\ f.geometry.coordinates # <<>> }

CachedPoint(i) == _drought_geojson_cache.features.items[i]

DistanceTo(i, q) ==
    LET coords == CachedPoint(i).geometry.coordinates
    IN  (q.lon - coords[1].v) * (q.lon - coords[1].v)
        + (q.lat - coords[2].v) * (q.lat - coords[2].v)

IsNearest(i, q) ==
    /\ i \in CachedPoints
    /\ \A j \in CachedPoints : DistanceTo(i, q) <= DistanceTo(j, q)

(* C11: for a dataset with at least one point, the assessment returned by   *)
(* get_drought_risk_from_geojson is resolved from a point whose squared     *)
(* distance in (lon, lat) to the query is minimal over all points that have *)
(* coordinates; with three points at strictly increasing distance it is the *)
(* nearest one's index that is returned.                                    *)
Thm_C11 ==
    (droughtOut.outcome.st = "returned" /\ CachedPoints # {})
        => \E i \in CachedPoints :
              /\ IsNearest(i, droughtOut.query)
              /\ LET spi == FirstSpi(CachedPoint(i).properties)
                 IN  IF IsNum(spi)
                     THEN /\ droughtOut.outcome.value.data_available
                          /\ droughtOut.outcome.value.spi_value = spi
                     ELSE ~droughtOut.outcome.value.data_available

\* Three points at squared distances 25, 4 and 16 from the query; the index
\* returned is that of the second of them.
Wit_C11 ==
    /\ droughtOut.outcome.st = "returned"
    /\ droughtOut.query = [lat |-> 0, lon |-> 5]
    /\ _drought_geojson_cache # NoCache
    /\ _drought_geojson_cache.features = FeatureList(<<PointA, PointD, PointE>>)
    /\ droughtOut.outcome.value.spi_value = Num(-60)

\* The polygons of the cached basin dataset that contain the location q:
\* valid shapes with q strictly inside.
ContainingPolygons(q) ==
    IF _watershed_geojson_cache = NoCache \/ _watershed_geojson_cache.features.k # "list"
    THEN {}
    ELSE { i \in 1..Len(_watershed_geojson_cache.features.items) :
              LET feat == _watershed_geojson_cache.features.items[i]
              IN  /\ feat.k = "dict"
                  /\ feat.geometry.k = "dict"
                  /\ feat.geometry.coordinates # <<>>
                  /\ feat.geometry.shape = "polygon"
                  /\ feat.geometry.coordinates[1].v < q.lon
                  /\ q.lon < feat.geometry.coordinates[3].v
                  /\ feat.geometry.coordinates[2].v < q.lat
                  /\ q.lat < feat.geometry.coordinates[4].v }

FirstOf(S) == CHOOSE i \in S : \A j \in S : i <= j

(* C12: with shapely available, get_watershed_for_location tests the        *)
(* polygons in dataset order and returns the properties of the first one    *)
(* that contains the point; the unavailable result when none contains it.   *)
Thm_C12 ==
    (basinOut.outcome.st = "returned" /\ shapelyInstalled)
        => LET matches == ContainingPolygons(basinOut.query)
               result == basinOut.outcome.value
           IN  IF matches = {}
               THEN result = watershed_placeholder
               ELSE LET props ==
                          _watershed_geojson_cache.features.items[FirstOf(matches)].properties
                    IN  /\ result.data_available
                        /\ result.basin_name = Or(props.havza_ad, "-")
                        /\ result.basin_id = Or(props.havza_no, props.h_no)
                        /\ result.source = "Havza GeoJSON"

\* Two polygons contain the location; the second in dataset order is basin A.
Wit_C12 ==
    /\ basinOut.outcome.st = "returned"
    /\ shapelyInstalled
    /\ basinOut.query = [lat |-> 0, lon |-> 1]
    /\ _watershed_geojson_cache # NoCache
    /\ _watershed_geojson_cache.features = FeatureList(<<BasinB, BasinA>>)
    /\ basinOut.outcome.value.basin_name = "B"
    /\ basinOut.outcome.value.basin_id = "7"

-----------------------------------------------------------------------------
(* One process over time: resolver calls, decision computations, and the    *)
(* dataset files being written, replaced or removed on disk meanwhile.      *)

CacheDroughtFiles ==
    { MissingFile, UnparseableFile, WellFormedDroughtFile,
      ParsedFile(JsonDict(FeatureList(<<PointD>>))) }

CacheWatershedFiles ==
    { MissingFile, UnparseableFile, WellFormedWatershedFile }

InitCache ==
    /\ droughtFile \in CacheDroughtFiles
    /\ watershedFile \in CacheWatershedFiles
    /\ shapelyInstalled = TRUE
    /\ DatasetsIdle
    /\ _drought_geojson_cache = NoCache
    /\ _watershed_geojson_cache = NoCache
    /\ droughtOut = NoOutcome
    /\ basinOut = NoOutcome
    /\ parses = NoParses
    /\ threads = ThreadsIdle
    /\ call = NoCall /\ calls = 0
    /\ SessionIdle

\* Something outside the process changes a dataset file.
ReplaceDroughtFile ==
    /\ \E file \in CacheDroughtFiles \ {droughtFile} : droughtFile' = file
    /\ UNCHANGED <<call, calls, watershedFile, shapelyInstalled, datasetVars, _drought_geojson_cache,
                   _watershed_geojson_cache, droughtOut, basinOut, parses, threads,
                   sessionVars>>

ReplaceWatershedFile ==
    /\ \E file \in CacheWatershedFiles \ {watershedFile} : watershedFile' = file
    /\ UNCHANGED <<call, calls, droughtFile, shapelyInstalled, datasetVars, _drought_geojson_cache,
                   _watershed_geojson_cache, droughtOut, basinOut, parses, threads,
                   sessionVars>>

\* A decision computation: none of them names a module-level cache.
Compute(fn, args) ==
    /\ \E r \in Results(fn, args) : call' = [fn |-> fn, args |-> args, result |-> r]
    /\ UNCHANGED <<calls, hazardVars, sessionVars>>

ComputeStrategy ==
    \E et0 \in {150, 1061}, rain_expected \in BOOLEAN :
       Compute("generate_ai_irrigation_strategy",
               [platform_mode |-> FARMER_MODE, et0 |-> et0, water_need |-> 1000,
                area |-> 100, humidity |-> 35, temp |-> 280, wind |-> 20,
                rain_expected |-> rain_expected, drought_risk_score |-> None,
                user_type |-> "None", geojson_drought_category |-> "High",
                basin_water_stressed |-> "False"])

ComputeConfidence ==
    \E forecast_count \in {0, 8} :
       Compute("calculate_decision_confidence",
               [et0 |-> 1061, forecast_count |-> forecast_count,
                strategy_type |-> "recommended", rain_expected |-> FALSE,
                weather_risk |-> "medium"])

ComputeSustainability ==
    \E strategy_type \in {"water_saving", "recommended"} :
       Compute("calculate_sustainability_metrics",
               [water_need |-> 1000, et0 |-> 1061, area |-> 100, rain_expected |-> FALSE,
                strategy_type |-> strategy_type, platform_mode |-> FARMER_MODE])

ComputeScenarios ==
    \E has_forecast \in BOOLEAN :
       Compute("simulate_scenarios",
               [current_water_need |-> 1000, current_et0 |-> 1061,
                rain_expected |-> FALSE, has_forecast |-> has_forecast])

NextCache ==
    \/ ResolveDrought \/ ResolveWatershed
    \/ ReplaceDroughtFile \/ ReplaceWatershedFile
    \/ ComputeStrategy \/ ComputeConfidence \/ ComputeSustainability \/ ComputeScenarios

SpecCache == InitCache /\ [][NextCache]_vars

(* C13: over any sequence of resolver calls in one process each hazard      *)
(* dataset is parsed at most once, on first access; a populated cache never *)
(* changes again, whatever happens to the file; and when the first load     *)
(* found the file missing or unparseable, every later call reports          *)
(* unavailable.                                                             *)
Thm_C13 ==
    [][ /\ _drought_geojson_cache # NoCache
           => _drought_geojson_cache' = _drought_geojson_cache
        /\ _watershed_geojson_cache # NoCache
           => _watershed_geojson_cache' = _watershed_geojson_cache
        /\ parses'.drought <= 1 /\ parses'.watershed <= 1
        /\ parses'.drought > parses.drought => _drought_geojson_cache = NoCache
        /\ parses'.watershed > parses.watershed => _watershed_geojson_cache = NoCache
        /\ (_drought_geojson_cache = EmptyDict /\ droughtOut' # droughtOut)
           => droughtOut'.outcome = Returned(drought_placeholder)
        /\ (_watershed_geojson_cache = EmptyDict /\ basinOut' # basinOut)
           => basinOut'.outcome = Returned(watershed_placeholder) ]_vars

\* The first load found no drought file; a well-formed file is on disk now,
\* it was never parsed and the last call reported unavailable.
Wit_C13 ==
    /\ _drought_geojson_cache = EmptyDict
    /\ droughtFile = WellFormedDroughtFile
    /\ parses.drought = 0
    /\ droughtOut.outcome = Returned(drought_placeholder)
    /\ droughtOut.query = [lat |-> 0, lon |-> 5]

(* C15: once a hazard cache is populated no decision computation changes   *)
(* it: the two resolvers, generate_ai_irrigation_strategy,                  *)
(* calculate_decision_confidence, calculate_sustainability_metrics and      *)
(* simulate_scenarios leave both cached datasets as they are, and a query   *)
(* for the location of the previous query returns the same assessment,      *)
(* whatever was computed in between.                                        *)
Thm_C15 ==
    [][ /\ call' # call
           => /\ _drought_geojson_cache' = _drought_geojson_cache
              /\ _watershed_geojson_cache' = _watershed_geojson_cache
        /\ (droughtOut' # droughtOut \/ basinOut' # basinOut)
           => /\ _drought_geojson_cache # NoCache
                 => _drought_geojson_cache' = _drought_geojson_cache
              /\ _watershed_geojson_cache # NoCache
                 => _watershed_geojson_cache' = _watershed_geojson_cache
        /\ (droughtOut.outcome.st # "none" /\ droughtOut'.query = droughtOut.query)
           => droughtOut'.outcome = droughtOut.outcome
        /\ (basinOut.outcome.st # "none" /\ basinOut'.query = basinOut.query)
           => basinOut'.outcome = basinOut.outcome ]_vars

\* Both caches hold a dataset, both resolvers have answered from it, the
\* files have since been removed and scenarios have been simulated.
Wit_C15 ==
    /\ call.fn = "simulate_scenarios"
    /\ _drought_geojson_cache = WellFormedDroughtFile.data
    /\ _watershed_geojson_cache = WellFormedWatershedFile.data
    /\ droughtFile = MissingFile
    /\ watershedFile = MissingFile
    /\ droughtOut.outcome.st = "returned" /\ droughtOut.outcome.value.data_available
    /\ basinOut.outcome.st = "returned" /\ basinOut.outcome.value.data_available

-----------------------------------------------------------------------------
(* A multi-threaded host: two threads inside _load_drought_geojson or       *)
(* _load_watershed_geojson. The loaders take no lock, so a thread may be    *)
(* suspended between any two of their statements.                           *)

Datasets == {"drought", "watershed"}

CacheOf(dataset) ==
    IF dataset = "drought" THEN _drought_geojson_cache ELSE _watershed_geojson_cache
FileOf(dataset) ==
    IF dataset = "drought" THEN droughtFile ELSE watershedFile

\* The assignment to the global of the dataset.
SetCache(dataset, value) ==
    IF dataset = "drought"
    THEN _drought_geojson_cache' = value /\ UNCHANGED _watershed_geojson_cache
    ELSE _watershed_geojson_cache' = value /\ UNCHANGED _drought_geojson_cache

ThreadFrame ==
    UNCHANGED <<call, calls, droughtFile, watershedFile, shapelyInstalled, datasetVars,
                droughtOut, basinOut, sessionVars>>

\* A thread calls a resolver, which calls the loader of its dataset.
EnterLoader(t) ==
    /\ threads[t].pc = "idle"
    /\ \E dataset \in Datasets :
          threads' = [threads EXCEPT ![t] = [IdleThread EXCEPT !.pc = "check",
                                                               !.dataset = dataset]]
    /\ UNCHANGED <<_drought_geojson_cache, _watershed_geojson_cache, parses>>
    /\ ThreadFrame

\* if _drought_geojson_cache is not None: return _drought_geojson_cache
CheckCache(t) ==
    /\ threads[t].pc = "check"
    /\ threads' = [threads EXCEPT ![t] =
                     IF CacheOf(threads[t].dataset) # NoCache
                     THEN [@ EXCEPT !.pc = "done", !.result = CacheOf(threads[t].dataset)]
                     ELSE [@ EXCEPT !.pc = "exists"]]
    /\ UNCHANGED <<_drought_geojson_cache, _watershed_geojson_cache, parses>>
    /\ ThreadFrame

\* if not path.exists(): _drought_geojson_cache = {}
CheckExists(t) ==
    /\ threads[t].pc = "exists"
    /\ IF FileOf(threads[t].dataset).st = "missing"
       THEN /\ SetCache(threads[t].dataset, EmptyDict)
            /\ threads' = [threads EXCEPT ![t].pc = "return"]
       ELSE /\ UNCHANGED <<_drought_geojson_cache, _watershed_geojson_cache>>
            /\ threads' = [threads EXCEPT ![t].pc = "parse"]
    /\ UNCHANGED parses
    /\ ThreadFrame

\* data = json.load(f); on an exception the value to store is {}
ParseFile(t) ==
    /\ threads[t].pc = "parse"
    /\ threads' = [threads EXCEPT ![t].pc = "store",
                                  ![t].data = LoadedGeojson(FileOf(threads[t].dataset))]
    /\ parses' = [parses EXCEPT ![threads[t].dataset] = @ + 1]
    /\ UNCHANGED <<_drought_geojson_cache, _watershed_geojson_cache>>
    /\ ThreadFrame

\* _drought_geojson_cache = data if isinstance(data, dict) else {}
StoreCache(t) ==
    /\ threads[t].pc = "store"
    /\ SetCache(threads[t].dataset, threads[t].data)
    /\ threads' = [threads EXCEPT ![t].pc = "return"]
    /\ UNCHANGED parses
    /\ ThreadFrame

\* return _drought_geojson_cache
ReturnCache(t) ==
    /\ threads[t].pc = "return"
    /\ threads' = [threads EXCEPT ![t].pc = "done",
                                  ![t].result = CacheOf(threads[t].dataset)]
    /\ UNCHANGED <<_drought_geojson_cache, _watershed_geojson_cache, parses>>
    /\ ThreadFrame

InitThreads ==
    /\ droughtFile \in CacheDroughtFiles
    /\ watershedFile \in CacheWatershedFiles
    /\ shapelyInstalled = TRUE
    /\ DatasetsIdle
    /\ _drought_geojson_cache = NoCache
    /\ _watershed_geojson_cache = NoCache
    /\ droughtOut = NoOutcome
    /\ basinOut = NoOutcome
    /\ parses = NoParses
    /\ threads = ThreadsIdle
    /\ call = NoCall /\ calls = 0
    /\ SessionIdle

NextThreads ==
    \E t \in Threads :
        \/ EnterLoader(t) \/ CheckCache(t) \/ CheckExists(t)
        \/ ParseFile(t) \/ StoreCache(t) \/ ReturnCache(t)

SpecThreads == InitThreads /\ [][NextThreads]_vars

(* C14: when two threads make their first call to a hazard resolver at the  *)
(* same time, the dataset file is parsed only once and both threads         *)
(* observe the same cached dataset.                                         *)
Cex_C14 ==
    /\ parses.drought <= 1
    /\ parses.watershed <= 1
    /\ \A t1, t2 \in Threads :
          (/\ threads[t1].pc = "done" /\ threads[t2].pc = "done"
           /\ threads[t1].dataset = threads[t2].dataset)
              => threads[t1].result = threads[t2].result

-----------------------------------------------------------------------------
(* analyze_hourly_irrigation called on forecasts of a few slots.            *)

MaxSlots == 3

\* Readings <<temp, humidity, wind, rain>>. The first three score 5.00 (the
\* second and third are the pair whose floats differ), the fourth -5.50, the
\* fifth 30.90.
SlotReadings ==
    { <<160, 35, 70, FALSE>>, <<160, 35, 70, TRUE>>, <<180, 35, 60, FALSE>>,
      <<350, 20, 50, FALSE>>, <<150, 90, 10, TRUE>> }

ForecastOf(readings) ==
    [i \in 1..Len(readings) |->
        Hour(i, readings[i][1], readings[i][2], readings[i][3], readings[i][4])]

\* Every forecast of up to MaxSlots slots, and two of nine slots whose last
\* slot is the wettest and the best.
HourlyForecasts ==
    { ForecastOf(readings) : readings \in SeqsUpTo(SlotReadings, MaxSlots) }
    \cup { ForecastOf([i \in 1..9 |-> IF i = 9 THEN <<150, 90, 10, TRUE>> ELSE first]) :
             first \in { <<160, 35, 70, FALSE>>, <<350, 20, 50, FALSE>> } }

HoursArgs == {2, DefaultHours}

CallAnalyze ==
    /\ call.fn = "none"
    /\ \E forecast_data \in HourlyForecasts, hours \in HoursArgs :
          Invoke("analyze_hourly_irrigation",
                 [forecast_data |-> forecast_data, hours |-> hours])

SpecHourly == InitEngine /\ [][CallAnalyze]_vars

IsAnalyzeCall == call.fn = "analyze_hourly_irrigation"

(* C16: every suitability score produced by analyze_hourly_irrigation for a *)
(* forecast slot lies in [0, 100].                                          *)
Cex_C16 ==
    IsAnalyzeCall
        => \A i \in 1..Len(call.result.rows) :
              0 <= call.result.rows[i].score /\ call.result.rows[i].score <= 10000

\* The slots the call looks at: the first hours of the forecast.
Window == Take(call.args.forecast_data, call.args.hours)

IsMaxSlot(i) ==
    /\ i \in 1..Len(Window)
    /\ \A j \in 1..Len(Window) : HourScore(Window[j]) <= HourScore(Window[i])

(* C19: analyze_hourly_irrigation looks at the first N slots only (8 by     *)
(* default), scores each as 0.4*humidity - 0.3*temperature - 0.6*wind,      *)
(* returns as best slot the earliest of the slots with the maximum score,   *)
(* and sets rain_expected exactly when one of the N slots carries rain.     *)
Cex_C19 ==
    IsAnalyzeCall
        => /\ Len(call.result.rows) = Min(call.args.hours, Len(call.args.forecast_data))
           /\ \A i \in 1..Len(Window) :
                 call.result.rows[i].score
                    = 40 * Window[i].humidity - 3 * Window[i].temp - 6 * Window[i].wind
           /\ call.result.rain_expected <=> \E i \in 1..Len(Window) : Window[i].rain
           /\ Window # <<>>
                 => /\ IsMaxSlot(call.result.best_hour)
                    /\ \A j \in 1..(call.result.best_hour - 1) : ~IsMaxSlot(j)

\* The point the resolver answers from: the first of the nearest.
NearestCached(q) == FirstOf({i \in CachedPoints : IsNearest(i, q)})

(* C17: from the nearest point get_drought_risk_from_geojson takes the      *)
(* index from the first field present in the order 6-month, 3-month,        *)
(* 1-month, a value of 0 counting as present; if the nearest point has none *)
(* of the three the result is the unavailable one: no farther point is      *)
(* tried and no default number is given.                                    *)
Thm_C17 ==
    (droughtOut.outcome.st = "returned" /\ CachedPoints # {})
        => LET props == CachedPoint(NearestCached(droughtOut.query)).properties
               result == droughtOut.outcome.value
           IN  /\ IsNum(props.last6month)
                  => result.data_available /\ result.spi_value = props.last6month
               /\ (props.last6month = None /\ IsNum(props.last3month))
                  => result.data_available /\ result.spi_value = props.last3month
               /\ (props.last6month = None /\ props.last3month = None
                   /\ IsNum(props.last1month))
                  => result.data_available /\ result.spi_value = props.last1month
               /\ (props.last6month = None /\ props.last3month = None
                   /\ props.last1month = None)
                  => result = drought_placeholder

\* The nearest point has a 6-month index of 0 and other values for the
\* shorter periods; the index returned is 0.
Wit_C17 ==
    /\ droughtOut.outcome.st = "returned"
    /\ droughtOut.query = [lat |-> 0, lon |-> 5]
    /\ _drought_geojson_cache # NoCache
    /\ _drought_geojson_cache.features = FeatureList(<<PointA, PointSix>>)
    /\ droughtOut.outcome.value.data_available
    /\ droughtOut.outcome.value.spi_value = Num(0)
    /\ droughtOut.outcome.value.drought_category = "Low"

-----------------------------------------------------------------------------
(* _spi_to_drought_category called on every index of a range, in hundredths *)

MaxSpi == 200

SpiValues == (0 - MaxSpi)..MaxSpi

CallSpiCategory ==
    /\ call.fn = "none"
    /\ \E spi \in SpiValues : Invoke("_spi_to_drought_category", [spi |-> spi])

SpecSpi == InitEngine /\ [][CallSpiCategory]_vars

(* C18: the drought index is mapped to severity by inclusive lower bounds:  *)
(* >= -0.5 Low, else >= -1.0 Medium, else >= -1.5 High, else Extreme. An    *)
(* index of exactly -1.0 is Medium, which is no water_saving trigger, and   *)
(* exactly -1.5 is High.                                                    *)
Thm_C18 ==
    call.fn = "_spi_to_drought_category"
        => /\ call.args.spi >= -50 => call.result = "Low"
           /\ (call.args.spi < -50 /\ call.args.spi >= -100) => call.result = "Medium"
           /\ (call.args.spi < -100 /\ call.args.spi >= -150) => call.result = "High"
           /\ call.args.spi < -150 => call.result = "Extreme"
           /\ call.args.spi = -100 => ~geojson_force_water_saving_of(call.result)
           /\ call.args.spi = -150 => geojson_force_water_saving_of(call.result)

\* The index is exactly -1.0 and the category Medium.
Wit_C18 ==
    /\ call.fn = "_spi_to_drought_category"
    /\ call.args.spi = -100
    /\ call.result = "Medium"

-----------------------------------------------------------------------------
(* The confidence terms as the specification tabulates them, in points.     *)

CompletenessPoints(slots) ==
    CASE slots >= 8 -> 40
      [] slots >= 5 /\ slots < 8 -> 30
      [] slots >= 3 /\ slots < 5 -> 20
      [] OTHER -> 10

PlausibilityPoints(et0) ==
    CASE 0 < et0 /\ et0 < 1000 -> 25
      [] 1000 <= et0 /\ et0 < 1500 -> 20
      [] OTHER -> 15

CertaintyPoints(strategy) ==
    CASE strategy = "water_saving" -> 20
      [] strategy = "risk_aware" -> 15
      [] OTHER -> 18

StabilityPoints(risk) ==
    CASE risk = "low" -> 15
      [] risk = "medium" -> 10
      [] OTHER -> 5

(* C20: calculate_decision_confidence is min(100, completeness +            *)
(* plausibility + certainty + stability + bonus) with completeness 40 / 30  *)
(* / 20 / 10 for >= 8 / >= 5 / >= 3 / fewer slots, plausibility 25 for      *)
(* 0 < ET0 < 10, 20 for 10 <= ET0 < 15, else 15 (ET0 = 0 included),         *)
(* certainty 20 / 15 / 18 for water_saving / risk_aware / any other,        *)
(* stability 15 / 10 / 5 for low / medium / any other, and a bonus of 5     *)
(* when rain is expected.                                                   *)
Thm_C20 ==
    call.fn = "calculate_decision_confidence"
        => call.result
             = 10 * Min(100, CompletenessPoints(call.args.forecast_count)
                             + PlausibilityPoints(call.args.et0)
                             + CertaintyPoints(call.args.strategy_type)
                             + StabilityPoints(call.args.weather_risk)
                             + (IF call.args.rain_expected THEN 5 ELSE 0))

\* ET0 is exactly 15: the plausibility term is 15 and the score 83.
Wit_C20 ==
    /\ call.fn = "calculate_decision_confidence"
    /\ call.args = [et0 |-> 1500, forecast_count |-> 8, strategy_type |-> "recommended",
                    rain_expected |-> FALSE, weather_risk |-> "medium"]
    /\ call.result = 830

-----------------------------------------------------------------------------
(* find_region_in_dataset *)
(* A table is its column names and its rows; latitudes and longitudes are   *)
(* in tenths of a degree, a missing cell is nan, a name is a sequence of    *)
(* letters.                                                                 *)

NoTable == [t |-> "None", columns |-> {}, rows |-> <<>>]
Table(columns, rows) == [t |-> "df", columns |-> columns, rows |-> rows]
Row(region_name, lat, lon) == [region_name |-> region_name, lat |-> lat, lon |-> lon]

NoName == [k |-> "None", v |-> <<>>]      \* a missing name, or no name given
Name(letters) == [k |-> "str", v |-> letters]

NoRow == Row(NoName, None, None)    \* the None that find_region_in_dataset returns

DEFAULT_TOLERANCE == 5

\* str.lower() letter by letter
LowerLetter(c) ==
    CASE c = "K" -> "k"
      [] c = "A" -> "a"
      [] c = "I" -> "i"
      [] OTHER -> c

LowerName(name) == [i \in 1..Len(name) |-> LowerLetter(name[i])]

\* str.lower().str.contains(pattern, na=False) on one cell: a missing name
\* is no match. The patterns are letters only, so the regular expression is
\* the plain substring.
NameContains(name, pattern) ==
    /\ name.k = "str"
    /\ \E i \in 0..(Len(name.v) - Len(pattern)) :
          SubSeq(LowerName(name.v), i + 1, i + Len(pattern)) = pattern

Abs(n) == IF n >= 0 THEN n ELSE 0 - n

\* abs(df[col] - x) <= tolerance on one cell. A nan compares false. A
\* difference of exactly the tolerance is computed in floats: it compares
\* true for cells and queries that are multiples of 0.5 and either way for
\* the others.
AxisTest(cell, x, tolerance) ==
    IF cell.k = "nan" THEN {FALSE}
    ELSE IF Abs(cell.v - x) < tolerance THEN {TRUE}
    ELSE IF Abs(cell.v - x) > tolerance THEN {FALSE}
    ELSE IF cell.v % 5 = 0 /\ x % 5 = 0 THEN {TRUE}
    ELSE {TRUE, FALSE}

\* The rows that the filter of lines 953-956 may keep.
FilteredRows(df, lat, lon, tolerance) ==
    LET n == Len(df.rows)
        may(i) == /\ TRUE \in AxisTest(df.rows[i].lat, lat, tolerance)
                  /\ TRUE \in AxisTest(df.rows[i].lon, lon, tolerance)
        must(i) == /\ AxisTest(df.rows[i].lat, lat, tolerance) = {TRUE}
                   /\ AxisTest(df.rows[i].lon, lon, tolerance) = {TRUE}
    IN  { S \in SUBSET (1..n) :
            /\ \A i \in 1..n : must(i) => i \in S
            /\ \A i \in S : may(i) }

\* (lat - lat0) ** 2 + (lon - lon0) ** 2, the square of _distance
SquaredDistanceTo(row, lat, lon) ==
    (row.lat.v - lat) * (row.lat.v - lat) + (row.lon.v - lon) * (row.lon.v - lon)

SameCoordinates(a, b) == a.lat = b.lat /\ a.lon = b.lon

\* nsmallest(1, "_distance").iloc[0]: the first row of the least distance.
\* Two rows of different coordinates and the same exact distance have
\* distances computed in floats, and either may be the smaller.
NearestRows(df, kept, lat, lon) ==
    { i \in kept :
        /\ \A j \in kept : SquaredDistanceTo(df.rows[i], lat, lon)
                             <= SquaredDistanceTo(df.rows[j], lat, lon)
        /\ \A j \in kept : j < i => ~SameCoordinates(df.rows[i], df.rows[j]) }

\* nlargest in place of nsmallest.
find_region_by_coordinates_Farthest(df, lat, lon, tolerance) ==
    UNION { IF kept = {} THEN {NoRow}
            ELSE { df.rows[i] : i \in { k \in kept : \A j \in kept :
                        SquaredDistanceTo(df.rows[k], lat, lon)
                          >= SquaredDistanceTo(df.rows[j], lat, lon) } } :
            kept \in FilteredRows(df, lat, lon, tolerance) }

\* Lines 952-965, for a table that has both columns and numbers in them.
find_region_by_coordinates(df, lat, lon, tolerance) ==
    UNION { IF kept = {} THEN {NoRow}
            ELSE { df.rows[i] : i \in NearestRows(df, kept, lat, lon) } :
            kept \in FilteredRows(df, lat, lon, tolerance) }

\* A cell that is no number makes df[col] - x raise; the except clause of
\* line 967 turns that into None.
HasTextCell(df) ==
    \E i \in 1..Len(df.rows) : df.rows[i].lat.k = "str" \/ df.rows[i].lon.k = "str"

find_region_in_dataset(df, lat, lon, region_name, tolerance) ==
    LET named == { i \in 1..Len(df.rows) :
                     NameContains(df.rows[i].region_name, LowerName(region_name.v)) }
    IN  IF df.t = "None" \/ df.rows = <<>> THEN {NoRow}
        ELSE IF /\ region_name.k = "str" /\ region_name.v # <<>>
                /\ "region_name" \in df.columns
                /\ named # {}
        THEN {df.rows[CHOOSE i \in named : \A j \in named : i <= j]}
        ELSE IF "lat" \in df.columns /\ "lon" \in df.columns
        THEN IF HasTextCell(df) THEN {NoRow}
             ELSE find_region_by_coordinates(df, lat, lon, tolerance)
        ELSE {NoRow}

\* One call of a function on its own, with the results it may give.
Return(fn, args, results) ==
    /\ \E r \in results : call' = [fn |-> fn, args |-> args, result |-> r]
    /\ calls' = calls + 1
    /\ UNCHANGED <<hazardVars, sessionVars>>

MaxRows == 2

RegionRows ==
    { Row(Name(<<"K", "o", "n">>), Num(14), Num(14)),
      Row(Name(<<"A", "n", "k">>), Num(10), Num(15)),
      Row(NoName, Num(13), Num(14)),
      Row(Name(<<"I", "z">>), Num(16), Num(10)),
      Row(Name(<<"k", "o">>), NaN, Num(10)),
      Row(NoName, Num(11), Num(10)),
      Row(NoName, Str, Num(10)),
      Row(NoName, Num(17), Num(10)) }

RegionColumns == { {"region_name", "lat", "lon"}, {"lat", "lon"}, {"region_name", "lat"} }

RegionTables ==
    {NoTable} \cup { Table(c, rows) : c \in RegionColumns, rows \in SeqsUpTo(RegionRows, MaxRows) }

RegionQueries == { [lat |-> 10, lon |-> 10], [lat |-> 12, lon |-> 10] }

RegionNames == { NoName, Name(<<>>), Name(<<"K", "O">>), Name(<<"z", "m">>) }

CallFindRegion ==
    /\ call.fn = "none"
    /\ \E df \in RegionTables, q \in RegionQueries, region_name \in RegionNames :
          Return("find_region_in_dataset",
                 [df |-> df, lat |-> q.lat, lon |-> q.lon, region_name |-> region_name,
                  tolerance |-> DEFAULT_TOLERANCE],
                 find_region_in_dataset(df, q.lat, q.lon, region_name, DEFAULT_TOLERANCE))

SpecRegion == InitEngine /\ [][CallFindRegion]_vars

IsFindRegionCall == call.fn = "find_region_in_dataset"

\* The call went past the name match and met two columns of numbers.
MatchedByCoordinates ==
    LET a == call.args
    IN  /\ IsFindRegionCall
        /\ a.df.t = "df" /\ a.df.rows # <<>>
        /\ {"lat", "lon"} \subseteq a.df.columns
        /\ ~HasTextCell(a.df)
        /\ \/ a.region_name.k # "str" \/ a.region_name.v = <<>>
           \/ "region_name" \notin a.df.columns
           \/ \A i \in 1..Len(a.df.rows) :
                 ~NameContains(a.df.rows[i].region_name, LowerName(a.region_name.v))

IsNumberRow(row) == row.lat.k = "num" /\ row.lon.k = "num"

\* Both differences are at most the tolerance.
InBox(row) ==
    /\ IsNumberRow(row)
    /\ Abs(row.lat.v - call.args.lat) <= call.args.tolerance
    /\ Abs(row.lon.v - call.args.lon) <= call.args.tolerance

\* Both differences are below the tolerance.
InsideBox(row) ==
    /\ IsNumberRow(row)
    /\ Abs(row.lat.v - call.args.lat) < call.args.tolerance
    /\ Abs(row.lon.v - call.args.lon) < call.args.tolerance

CallDistance(row) == SquaredDistanceTo(row, call.args.lat, call.args.lon)

\* The Euclidean distance is at most the tolerance.
InDisc(row) ==
    /\ IsNumberRow(row)
    /\ CallDistance(row) <= call.args.tolerance * call.args.tolerance

RowsOfCall == { call.args.df.rows[i] : i \in 1..Len(call.args.df.rows) }

-----------------------------------------------------------------------------
(* Index fields that are no numbers *)

\* A field with a value that float() cannot parse taken as absent.
ParsableField(x) == IF IsNum(x) THEN x ELSE None

ParsableFields(props) ==
    [last6month |-> ParsableField(props.last6month),
     last3month |-> ParsableField(props.last3month),
     last1month |-> ParsableField(props.last1month)]

(* C22: an index field of the nearest point that cannot be parsed as a      *)
(* number counts as absent: the assessment is the one the same point gives  *)
(* with that field removed, and it is the unavailable one only when no      *)
(* parsable field remains.                                                  *)
Cex_C22 ==
    (droughtOut.outcome.st = "returned" /\ CachedPoints # {})
        => LET props == CachedPoint(NearestCached(droughtOut.query)).properties
               spi == FirstSpi(ParsableFields(props))
               result == droughtOut.outcome.value
           IN  IF spi = None THEN result = drought_placeholder
               ELSE /\ result.data_available
                    /\ result.spi_value = spi
                    /\ result.drought_category = _spi_to_drought_category(spi.v)

-----------------------------------------------------------------------------
(* The regional adjustment of the sustainability score *)

IsEnhanceCall == call.fn = "enhance_sustainability_with_regional_data"

InRange(f, lo, hi) == f # None => (lo <= f.v /\ f.v <= hi)

-----------------------------------------------------------------------------
(* The strategy and the scenarios of one decision: simulate_scenarios is    *)
(* called on the ET0, the water need and the rain flag the strategy was     *)
(* computed from.                                                           *)

ScenarioEt0s == {0, 5, 10, 150, 200, 1061}
ScenarioAreas == {100, 500}

DecideStrategy ==
    /\ call.fn = "none"
    /\ \E et0 \in ScenarioEt0s, area \in ScenarioAreas, rain_expected \in BOOLEAN,
          geojson_drought_category \in DroughtCategories,
          basin_water_stressed \in BasinFlags,
          platform_mode \in PlatformModes :
          \E water_need \in calculate_water_need(et0, area, 100) :
             Invoke("generate_ai_irrigation_strategy",
                    [platform_mode |-> platform_mode, et0 |-> et0,
                     water_need |-> water_need, area |-> area, humidity |-> 35,
                     temp |-> 280, wind |-> 20, rain_expected |-> rain_expected,
                     drought_risk_score |-> None, user_type |-> "None",
                     geojson_drought_category |-> geojson_drought_category,
                     basin_water_stressed |-> basin_water_stressed])

SimulateSame ==
    /\ call.fn = "generate_ai_irrigation_strategy"
    /\ \E has_forecast \in BOOLEAN :
          Invoke("simulate_scenarios",
                 [current_water_need |-> call.args.water_need,
                  current_et0 |-> call.args.et0,
                  rain_expected |-> call.args.rain_expected,
                  has_forecast |-> has_forecast])

NextScenario == DecideStrategy \/ SimulateSame

SpecScenario == InitEngine /\ [][NextScenario]_vars

IsScenarioCall == call.fn = "simulate_scenarios"

\* x is n / 10 rounded to an integer
IsTenthOf(x, n) == 2 * Abs(10 * x - n) <= 10

(* C24: the delay scenario of simulate_scenarios uses 0.9 times the         *)
(* baseline water need whenever a forecast is present, for every ET0 >= 0,  *)
(* and 1.1 times the baseline without a forecast; its score is 85 with a    *)
(* forecast when the projected ET0 (0.9 times the current one) is below the *)
(* current one, 70 with a forecast otherwise, 65 without a forecast.        *)
Cex_C24 ==
    IsScenarioCall =>
        LET a == call.args
            delay == call.result.scenarios.delay
        IN  IF a.has_forecast
            THEN /\ IsTenthOf(delay.water_used, 9 * a.current_water_need)
                 /\ delay.sustainability_score
                       = IF 9 * a.current_et0 < 10 * a.current_et0 THEN 85 ELSE 70
            ELSE /\ IsTenthOf(delay.water_used, 11 * a.current_water_need)
                 /\ delay.sustainability_score = 65

(* C26: the recommended scenario agrees with the primary decision: when     *)
(* generate_ai_irrigation_strategy returned water_saving, by any trigger,   *)
(* the "today" scenario that simulate_scenarios computes from the same      *)
(* inputs, which is the recommended one, uses no water.                     *)
Cex_C26 ==
    [][ (IsStrategyCall /\ call'.fn = "simulate_scenarios"
         /\ call.result.strategy_type = "water_saving")
        => /\ call'.result.recommended_scenario = "today"
           /\ call'.result.scenarios.today.water_used = 0 ]_vars

-----------------------------------------------------------------------------
(* The rationale of a water-saving strategy *)

\* The message block the strategy was built from, as its texts show it.
RationaleShown == call.result.action_items[1]

(* C25: when several water-saving triggers hold together the rationale is   *)
(* chosen in the order rain or low ET0, then drought, then basin: the       *)
(* drought texts are used exactly when there is no rain, ET0 >= 2 and the   *)
(* drought category is High or Extreme (the basin may be stressed too), the *)
(* basin texts exactly when there is no rain, ET0 >= 2, the category is     *)
(* neither and the basin is stressed; whichever is chosen, the strategy     *)
(* type is water_saving.                                                    *)
Thm_C25 ==
    (IsStrategyCall /\ WaterSavingTrigger(call.args)) =>
        LET a == call.args
            rain_or_low == a.rain_expected \/ a.et0 < 200
            drought == a.geojson_drought_category \in {"High", "Extreme"}
            basin == a.basin_water_stressed = "True"
        IN  /\ call.result.strategy_type = "water_saving"
            /\ RationaleShown = "rain_low_et0" <=> rain_or_low
            /\ RationaleShown = "drought" <=> (~rain_or_low /\ drought)
            /\ RationaleShown = "basin" <=> (~rain_or_low /\ ~drought /\ basin)
            /\ call.result.recommendation.block[1] = RationaleShown
            /\ RationaleShown = "drought"
                  => call.result.reasoning[1] = "spi_drought_" \o a.geojson_drought_category
            /\ RationaleShown = "basin" => call.result.reasoning[1] = "basin_stress_high"
            /\ RationaleShown = "rain_low_et0" => call.result.reasoning[1] = "et0_low"

\* No rain, ET0 of 2.00, an Extreme drought category and a stressed basin:
\* the drought texts are used.
Wit_C25 ==
    /\ IsStrategyCall
    /\ ~call.args.rain_expected /\ call.args.et0 = 200
    /\ call.args.geojson_drought_category = "Extreme"
    /\ call.args.basin_water_stressed = "True"
    /\ call.result.strategy_type = "water_saving"
    /\ RationaleShown = "drought"
    /\ call.result.reasoning[1] = "spi_drought_Extreme"

-----------------------------------------------------------------------------
(* Weather fetches and the decisions drawn from them *)

IsFetchCall == call.fn = "fetch_weather_data"

\* The pipeline ran in the last script run, to the end or to a resolver that
\* raised.
PipelineRan == decision.st \in {"rendered", "raised"}

(* C27: the decision engine runs only on complete weather data:             *)
(* fetch_weather_data returns both documents or neither, weather_data is    *)
(* written only by a fetch that returned both and then holds what that      *)
(* fetch returned, a failed fetch leaves the stored weather_data as it was, *)
(* and the pipeline runs only while weather_data is stored, on its values.  *)
Thm_C27 ==
    [][ /\ IsFetchCall' => (call'.result[1].k = "json" <=> call'.result[2].k = "json")
        /\ weather_data' # weather_data
              => /\ IsFetchCall' /\ BothFetched(call'.result)
                 /\ <<weather_data'.temp, weather_data'.humidity, weather_data'.wind>>
                       = call'.result[1].v
                 /\ weather_data'.forecast = call'.result[2].v
        /\ (IsFetchCall' /\ ~BothFetched(call'.result)) => weather_data' = weather_data
        /\ PipelineRan' => weather_data' # None
        /\ decision'.st = "rendered"
              => /\ decision'.et0 = weather_data'.et0
                 /\ decision'.strategy_data.weather_risk
                       = weather_risk_of(weather_data'.temp, weather_data'.humidity,
                                         weather_data'.wind) ]_vars

\* A fetch fails after one that succeeded: the page is still drawn from the
\* weather stored by the earlier one.
Wit_C27 ==
    /\ IsFetchCall /\ ~BothFetched(call.result)
    /\ weather_data # None
    /\ decision.st = "rendered"
    /\ decision.et0 = weather_data.et0

(* C28: weather and hazard data of one decision refer to the same location: *)
(* the drought and watershed lookups are made at the latitude and longitude *)
(* stored with the last successful fetch, which are the ones that fetch was *)
(* made for, whatever was clicked on the map since and whether or not a     *)
(* later fetch failed.                                                      *)
Thm_C28 ==
    [][ /\ (IsFetchCall' /\ BothFetched(call'.result) /\ weather_data' # weather_data)
              => /\ weather_data'.lat = call'.args.lat
                 /\ weather_data'.lon = call'.args.lon
        /\ (weather_data # None /\ ~(IsFetchCall' /\ BothFetched(call'.result)))
              => /\ weather_data'.lat = weather_data.lat
                 /\ weather_data'.lon = weather_data.lon
        /\ PipelineRan'
              => /\ droughtOut'.query = [lat |-> weather_data'.lat, lon |-> weather_data'.lon]
                 /\ decision'.st = "rendered" => basinOut'.query = droughtOut'.query ]_vars

\* Weather fetched for the default location, then a click elsewhere and a
\* fetch that fails: the hazards shown are those of the default location.
Wit_C28 ==
    /\ IsFetchCall /\ ~BothFetched(call.result)
    /\ call.args # DEFAULT_LOCATION
    /\ last_clicked = call.args
    /\ weather_data # None
    /\ weather_data.lat = DEFAULT_LOCATION.lat /\ weather_data.lon = DEFAULT_LOCATION.lon
    /\ decision.st = "rendered"
    /\ droughtOut.query = DEFAULT_LOCATION
    /\ basinOut.query = DEFAULT_LOCATION

-----------------------------------------------------------------------------
(* load_regional_dataset *)
(* A call returns the table (NoTable for None), leaves DATASET_CACHE as     *)
(* `cache` and has read the file `read` ("none" when no file was opened).   *)

Exists(files, path) == files[path].st # "missing"

\* The file the format leads to: the CSV file before the JSON file for
\* "auto"; "none" when it is not there.
PathToRead(files, dataset_type, file_format) ==
    LET csv_path == CsvPath(dataset_type)
        json_path == JsonPath(dataset_type)
    IN  IF file_format = "auto"
        THEN IF Exists(files, csv_path) THEN csv_path
             ELSE IF Exists(files, json_path) THEN json_path
             ELSE "none"
        ELSE IF file_format = "csv" /\ Exists(files, csv_path) THEN csv_path
        ELSE IF file_format = "json" /\ Exists(files, json_path) THEN json_path
        ELSE "none"

\* The result stored under the key whatever it is, None included.
load_regional_dataset_CacheNone(cache, files, dataset_type, file_format) ==
    LET cache_key == CacheKey(dataset_type, file_format)
        path == PathToRead(files, dataset_type, file_format)
        df == IF path = "none" \/ files[path].st = "unparseable" THEN NoTable
              ELSE files[path].data
    IN  IF cache[cache_key] # NotCached
        THEN [df |-> cache[cache_key], cache |-> cache, read |-> "none"]
        ELSE [df |-> df, cache |-> [cache EXCEPT ![cache_key] = df], read |-> path]

load_regional_dataset(cache, files, dataset_type, file_format) ==
    LET cache_key == CacheKey(dataset_type, file_format)
        path == PathToRead(files, dataset_type, file_format)
    IN  IF cache[cache_key] # NotCached
        THEN [df |-> cache[cache_key], cache |-> cache, read |-> "none"]
        ELSE IF path = "none"
        THEN [df |-> NoTable, cache |-> cache, read |-> "none"]
        \* pd.read_csv / pd.read_json raises: the except clause gives None
        ELSE IF files[path].st = "unparseable"
        THEN [df |-> NoTable, cache |-> cache, read |-> path]
        ELSE [df |-> files[path].data,
              cache |-> [cache EXCEPT ![cache_key] = files[path].data],
              read |-> path]

TableA == Table({"region_name", "lat", "lon"},
                <<Row(Name(<<"K", "o", "n">>), Num(14), Num(14))>>)
TableB == Table({"lat", "lon"}, <<Row(NoName, Num(11), Num(10))>>)

\* What each file may hold. The water resources dataset is called for in
\* the three formats, the drought risk dataset in the format the
\* application uses.
FileChoices(path) ==
    CASE path = "water_resources.csv" ->
           {MissingFile, UnparseableFile, ParsedFile(TableA), ParsedFile(TableB)}
      [] path = "water_resources.json" -> {MissingFile, ParsedFile(TableB)}
      [] path = "drought_risk.csv" -> {MissingFile, ParsedFile(TableA)}
      [] OTHER -> {MissingFile}

FormatChoices(dataset_type) ==
    IF dataset_type = "water_resources" THEN FileFormats ELSE {"auto"}

LoadDataset ==
    \E dataset_type \in DatasetTypes :
      \E file_format \in FormatChoices(dataset_type) :
        LET r == load_regional_dataset(DATASET_CACHE, datasetFiles, dataset_type, file_format)
        IN  /\ call' = [fn |-> "load_regional_dataset",
                        args |-> [dataset_type |-> dataset_type,
                                  file_format |-> file_format],
                        result |-> [df |-> r.df, read |-> r.read]]
            /\ DATASET_CACHE' = r.cache
            /\ UNCHANGED <<calls, datasetFiles, droughtFile, watershedFile,
                           shapelyInstalled, _drought_geojson_cache,
                           _watershed_geojson_cache, droughtOut, basinOut, parses,
                           threads, sessionVars>>

\* Something outside the process writes, replaces or removes a dataset file.
ChangeDatasetFile ==
    /\ \E path \in DatasetPaths :
         \E file \in FileChoices(path) \ {datasetFiles[path]} :
            datasetFiles' = [datasetFiles EXCEPT ![path] = file]
    /\ UNCHANGED <<call, calls, DATASET_CACHE, droughtFile, watershedFile,
                   shapelyInstalled, _drought_geojson_cache, _watershed_geojson_cache,
                   droughtOut, basinOut, parses, threads, sessionVars>>

NextDatasets == LoadDataset \/ ChangeDatasetFile

SpecDatasets == InitEngine /\ [][NextDatasets]_vars

IsLoadCall == call.fn = "load_regional_dataset"

\* The key of the call made in this step
LoadedKey == CacheKey(call'.args.dataset_type, call'.args.file_format)

\* The file the call made in this step is directed to, as it is on disk
FileToLoad ==
    LET csv == datasetFiles[CsvPath(call'.args.dataset_type)]
        json == datasetFiles[JsonPath(call'.args.dataset_type)]
        fmt == call'.args.file_format
    IN  IF fmt = "csv" \/ (fmt = "auto" /\ csv # MissingFile) THEN csv ELSE json

(* C29: load_regional_dataset caches only successful loads: a call that     *)
(* finds the file missing or unparseable returns None and stores nothing, so*)
(* a later call for the same dataset and format looks again and loads the   *)
(* file once it is there; after a successful load every later call for the  *)
(* same dataset type and format returns the cached table and opens no file, *)
(* whatever has become of the file.                                         *)
Thm_C29 ==
    [][ /\ \A key \in CacheKeys :
              /\ DATASET_CACHE[key] # NotCached => DATASET_CACHE'[key] = DATASET_CACHE[key]
              /\ DATASET_CACHE'[key] # NoTable
        /\ (IsLoadCall' /\ datasetFiles' = datasetFiles) =>
              IF DATASET_CACHE[LoadedKey] # NotCached
              THEN /\ call'.result.df = DATASET_CACHE[LoadedKey]
                   /\ call'.result.read = "none"
                   /\ DATASET_CACHE' = DATASET_CACHE
              ELSE IF FileToLoad.st = "parsed"
              THEN /\ call'.result.df = FileToLoad.data
                   /\ DATASET_CACHE' = [DATASET_CACHE EXCEPT ![LoadedKey] = FileToLoad.data]
              ELSE /\ call'.result.df = NoTable
                   /\ DATASET_CACHE' = DATASET_CACHE ]_vars

\* The CSV file was unparseable when first asked for, was then replaced and
\* loaded, and has since been removed: the call returns the table loaded
\* and opens nothing.
Wit_C29 ==
    /\ IsLoadCall
    /\ call.args = [dataset_type |-> "water_resources", file_format |-> "csv"]
    /\ call.result = [df |-> TableB, read |-> "none"]
    /\ datasetFiles["water_resources.csv"] = MissingFile
    /\ DATASET_CACHE["water_resources_csv"] = TableB
    /\ DATASET_CACHE["water_resources_auto"] = TableA
    /\ DATASET_CACHE["drought_risk_auto"] = NotCached

-----------------------------------------------------------------------------
(* enhance_ai_strategy_with_regional_data *)
(* The call returns the enhanced strategy and leaves the dict it was given  *)
(* as base_strategy. An insight is the pair of what it is about and the     *)
(* value shown; an adjustment is its type and priority.                     *)

\* str(severity).lower()
LowerSeverity(severity) ==
    CASE severity = "Severe" -> "severe"
      [] severity = "EXTREME" -> "extreme"
      [] severity = "Moderate" -> "moderate"
      [] OTHER -> severity

\* The keys the function adds to the copy
RegionalKeys(enhanced, insights, adjustments, recommendations) ==
    [regional_data_enhanced |-> enhanced,
     regional_insights |-> insights,
     regional_adjustments |-> adjustments,
     dataset_recommendations |-> recommendations]

Adjustment(type, priority) == [type |-> type, priority |-> priority]

\* f"{x:.2f}" and f"{x:.1f}" raise ValueError on a string
FormatRaises(x) == x.k = "str"

water_insights(water_resources) ==
    IF water_resources.data_available /\ water_resources.water_stress_index # None
    THEN <<<<"water_stress_index", water_resources.water_stress_index>>>>
    ELSE <<>>

\* water_stress > 0.7, elif water_stress > 0.4: false for a nan
water_adjustments(water_resources) ==
    LET water_stress == water_resources.water_stress_index
    IN  IF water_resources.data_available /\ water_stress.k = "num"
        THEN IF water_stress.v > 70 THEN <<Adjustment("water_conservation", "high")>>
             ELSE IF water_stress.v > 40 THEN <<Adjustment("water_efficiency", "medium")>>
             ELSE <<>>
        ELSE <<>>

drought_insights(drought_risk) ==
    IF drought_risk.data_available
    THEN (IF drought_risk.spi_index # None
          THEN <<<<"spi_index", drought_risk.spi_index>>>> ELSE <<>>)
         \o (IF drought_risk.drought_severity # "None"
             THEN <<<<"drought_severity", drought_risk.drought_severity>>>> ELSE <<>>)
    ELSE <<>>

drought_adjustments(drought_risk) ==
    IF /\ drought_risk.data_available
       /\ drought_risk.drought_severity # "None"
       /\ LowerSeverity(drought_risk.drought_severity) \in {"extreme", "severe"}
    THEN <<Adjustment("drought_response", "critical")>>
    ELSE <<>>

agricultural_insights(agricultural_data) ==
    IF agricultural_data.data_available
    THEN (IF agricultural_data.irrigation_coverage # None
          THEN <<<<"irrigation_coverage", agricultural_data.irrigation_coverage>>>>
          ELSE <<>>)
         \o (IF agricultural_data.farmer_adoption_rate # None
             THEN <<<<"farmer_adoption_rate", agricultural_data.farmer_adoption_rate>>>>
             ELSE <<>>)
    ELSE <<>>

watershed_insights(watershed) ==
    IF watershed.data_available THEN <<<<"basin", watershed.basin_name>>>> ELSE <<>>

watershed_adjustments(watershed) ==
    IF watershed.data_available /\ watershed.water_stress_label = "Yuksek"
    THEN <<Adjustment("basin_conservation", "high")>>
    ELSE <<>>

\* The strategy moved to water_saving when an adjustment of high or critical
\* priority is added.
enhance_ai_strategy_with_regional_data_Escalating(base_strategy, regional_intelligence) ==
    LET ri == regional_intelligence
        adjustments == water_adjustments(ri.water_resources)
                       \o drought_adjustments(ri.drought_risk)
                       \o watershed_adjustments(ri.watershed)
        added == RegionalKeys(TRUE, <<>>, adjustments, <<>>)
    IN  Returned([enhanced_strategy |->
                      added @@ [base_strategy EXCEPT !.strategy_type =
                                    IF adjustments # <<>> THEN "water_saving" ELSE @],
                  base_strategy |-> base_strategy])

enhance_ai_strategy_with_regional_data(base_strategy, regional_intelligence) ==
    LET ri == regional_intelligence
        any_available == \/ ri.water_resources.data_available
                         \/ ri.drought_risk.data_available
                         \/ ri.agricultural_data.data_available
                         \/ ri.watershed.data_available
        insights == water_insights(ri.water_resources)
                    \o drought_insights(ri.drought_risk)
                    \o agricultural_insights(ri.agricultural_data)
                    \o watershed_insights(ri.watershed)
        adjustments == water_adjustments(ri.water_resources)
                       \o drought_adjustments(ri.drought_risk)
                       \o watershed_adjustments(ri.watershed)
        \* enhanced_strategy = base_strategy.copy(): the keys are set on the
        \* copy, and no list of base_strategy is appended to
        added == RegionalKeys(any_available, insights, adjustments,
                              ri.regional_insights.recommendations)
    IN  IF \/ ri.water_resources.data_available
              /\ FormatRaises(ri.water_resources.water_stress_index)
           \/ ri.agricultural_data.data_available
              /\ \/ FormatRaises(ri.agricultural_data.irrigation_coverage)
                 \/ FormatRaises(ri.agricultural_data.farmer_adoption_rate)
        THEN Raised("ValueError")
        ELSE Returned([enhanced_strategy |-> added @@ base_strategy,
                       base_strategy |-> base_strategy])

StrategyIntelligences ==
    { [water_resources |-> w, drought_risk |-> d, agricultural_data |-> a,
       watershed |-> b, regional_insights |-> [recommendations |-> r]] :
      w \in { [data_available |-> FALSE, water_stress_index |-> None],
              [data_available |-> TRUE, water_stress_index |-> Num(80)],
              [data_available |-> TRUE, water_stress_index |-> Num(50)],
              [data_available |-> TRUE, water_stress_index |-> NaN],
              [data_available |-> TRUE, water_stress_index |-> Str] },
      d \in { [data_available |-> FALSE, spi_index |-> None, drought_severity |-> "None"],
              [data_available |-> TRUE, spi_index |-> Num(-120),
               drought_severity |-> "Severe"],
              [data_available |-> TRUE, spi_index |-> None,
               drought_severity |-> "Moderate"] },
      a \in { [data_available |-> FALSE, irrigation_coverage |-> None,
               farmer_adoption_rate |-> None],
              [data_available |-> TRUE, irrigation_coverage |-> Num(45),
               farmer_adoption_rate |-> None] },
      b \in { [data_available |-> FALSE, basin_name |-> "-", water_stress_label |-> "-"],
              [data_available |-> TRUE, basin_name |-> "A",
               water_stress_label |-> "Yuksek"] },
      r \in { <<>>, <<"monitor groundwater">> } }

\* The strategy just computed is handed on with a regional intelligence record.
EnhanceStrategy ==
    /\ call.fn = "generate_ai_irrigation_strategy"
    /\ \E regional_intelligence \in StrategyIntelligences :
          Return("enhance_ai_strategy_with_regional_data",
                 [base_strategy |-> call.result,
                  regional_intelligence |-> regional_intelligence,
                  et0 |-> call.args.et0, rain_expected |-> call.args.rain_expected],
                 {enhance_ai_strategy_with_regional_data(call.result, regional_intelligence)})

\* The confidence score is computed from the enhanced strategy.
ConfidenceAfterEnhance ==
    /\ call.fn = "enhance_ai_strategy_with_regional_data"
    /\ call.result.st = "returned"
    /\ \E forecast_count \in {0, 8} :
          Invoke("calculate_decision_confidence",
                 [et0 |-> call.args.et0, forecast_count |-> forecast_count,
                  strategy_type |-> call.result.value.enhanced_strategy.strategy_type,
                  rain_expected |-> call.args.rain_expected,
                  weather_risk |-> call.result.value.enhanced_strategy.weather_risk])

NextEnhance == DecideStrategy \/ EnhanceStrategy \/ ConfidenceAfterEnhance

SpecEnhance == InitEngine /\ [][NextEnhance]_vars

IsEnhanceStrategyCall == call.fn = "enhance_ai_strategy_with_regional_data"

(* C30: enhance_ai_strategy_with_regional_data never changes the            *)
(* classification: whatever the regional intelligence record, the strategy  *)
(* it returns has the strategy_type, weather_risk, reasoning and            *)
(* action_items of the base strategy, the base strategy it was given is     *)
(* left as it was, and the confidence computed afterwards is computed from  *)
(* the engine's own classification.                                         *)
Thm_C30 ==
    [][ /\ (IsEnhanceStrategyCall' /\ call'.result.st = "returned") =>
              LET base == call'.args.base_strategy
                  enhanced == call'.result.value.enhanced_strategy
              IN  /\ enhanced.strategy_type = base.strategy_type
                  /\ enhanced.weather_risk = base.weather_risk
                  /\ enhanced.reasoning = base.reasoning
                  /\ enhanced.action_items = base.action_items
                  /\ \A key \in DOMAIN base : enhanced[key] = base[key]
                  /\ call'.result.value.base_strategy = base
        /\ (IsEnhanceStrategyCall /\ call'.fn = "calculate_decision_confidence") =>
              /\ call'.args.strategy_type = call.args.base_strategy.strategy_type
              /\ call'.args.weather_risk = call.args.base_strategy.weather_risk
              /\ call'.result = calculate_decision_confidence(call.args.et0,
                                    call'.args.forecast_count,
                                    call.args.base_strategy.strategy_type,
                                    call.args.rain_expected,
                                    call.args.base_strategy.weather_risk) ]_vars

\* A recommended strategy enhanced with a water stress of 0.8, a severe
\* drought and a stressed basin: three adjustments are added and the
\* strategy is still the recommended one.
Wit_C30 ==
    /\ IsEnhanceStrategyCall
    /\ call.result.st = "returned"
    /\ call.args.base_strategy.strategy_type = "recommended"
    /\ Len(call.result.value.enhanced_strategy.regional_adjustments) = 3
    /\ call.result.value.enhanced_strategy.regional_data_enhanced
    /\ call.result.value.enhanced_strategy.strategy_type = "recommended"

=============================================================================
